---- MODULE Spec2Model ----
(***************************************************************************)
(* MCP-CostBot: the intent router (ai_assistant.py), the cost comparison   *)
(* engine (standard_mcp_server.py) and the conversation orchestrator       *)
(* (ai_assistant.py), as one state machine with one specification per      *)
(* component.                                                              *)
(*                                                                         *)
(* Text.  TLA+ strings are ASCII, so every Korean marker of the source is  *)
(* written in Revised Romanization:                                        *)
(*   "hyeonjae"  현재      "ibeon dal" 이번 달    "seobiseu" 서비스          *)
(*   "bigyo"     비교      "byeonhwa"  변화       "wonin"    원인            *)
(*   "wae"       왜        "bunseok"   분석       "eotteon"  어떤            *)
(*   "mongnok"   목록      "rijeon"    리전       "yecheuk"  예측            *)
(*   "jeonmang"  전망      "sangse"    상세       "jase"     자세            *)
(*   "naljja"    날짜      "ilbyeol"   일별       "gae"      개              *)
(*   "wol"       월                                                        *)
(* A query text is a record [words, phrase]: words is the set of marker    *)
(* words that occur in the text, phrase is the run-length encoding of the  *)
(* rest of the text, a sequence of <<character, repeat count>> segments    *)
(* over digits, "gae", "wol" and the blank.  No marker word contains a     *)
(* digit, "gae" or "wol", so the substring tests on words and the pattern  *)
(* tests on the phrase do not interfere.                                   *)
(*                                                                         *)
(* Amounts are integers in units of 0.01 (cents); binary floating-point    *)
(* rounding of the source's float arithmetic is not modelled.              *)
(***************************************************************************)
EXTENDS Integers, Sequences, FiniteSets, TLC

VARIABLES
    query,                \* router: user_query
    today,                \* datetime.now(), the reference date
    intent,               \* router: the local dict intent
    rpc,                  \* router: "start", "returned" or "raised"
    hashseed,             \* the process's string hash seed (PYTHONHASHSEED)
    baseline_data,        \* billing source: cost per key in the baseline period
    comparison_data,      \* billing source: cost per key in the comparison period
    billing_error,        \* "" or the message of the exception the source raises
    changes,              \* get_cost_comparisons: the sorted list changes
    comparison_result,    \* the text get_cost_comparisons returned
    drivers_result,       \* the text get_cost_drivers returned
    called,               \* the gateway operations that have returned
    conversation_history, \* CostAnalysisAssistant.conversation_history
    pc,                   \* per caller: its position in generate_response
    frame,                \* per caller: the locals of its generate_response call
                          \* and the calls it has made and returns it has done
    asked,                \* number of generate_response calls started
    appended,             \* every turn add_to_history has appended, in order
    request,              \* gateway: the function name and keyword arguments
    billing_source,       \* gateway: what the billing source does with each request
    response,             \* gateway: how the call ended, and the requests it sent
    session_messages,     \* shell: st.session_state.messages of one UI session
    awaiting              \* shell: the session's script run awaits its response

router_vars == <<query, today, intent, rpc>>
engine_vars == <<hashseed, baseline_data, comparison_data, billing_error,
                 changes, comparison_result, drivers_result, called>>
orchestrator_vars == <<conversation_history, pc, frame, asked, appended>>
gateway_vars == <<request, billing_source, response>>
shell_vars == <<session_messages, awaiting>>

----------------------------------------------------------------------------
(* Bounds of the model *)

MaxPhrase == 3            \* segments in the phrase part of a query
NumYears == 2             \* reference dates range over this many years
MaxFiller == 10           \* keys of the billing data beyond the two free keys
NumSeeds == 4             \* hash seeds, each giving one set iteration order
MaxQueries == 6           \* generate_response calls in one run
MaxGroups == 17           \* groups in one time bucket of a billing response
MaxValues == 22           \* values in one dimension listing
MaxPrompts == 3           \* prompts one UI session submits

----------------------------------------------------------------------------
(* Calendar dates: datetime restricted to its date fields *)

FirstYear == 2024
Years == FirstYear .. (FirstYear + NumYears - 1)

IsLeap(y) == (y % 4 = 0 /\ y % 100 # 0) \/ y % 400 = 0

DaysInMonth(y, m) ==
    IF m = 2 THEN (IF IsLeap(y) THEN 29 ELSE 28)
    ELSE IF m \in {4, 6, 9, 11} THEN 30 ELSE 31

Dates == { d \in [year : Years, month : 1..12, day : 1..31] :
             d.day <= DaysInMonth(d.year, d.month) }

\* datetime.replace(year=, month=, day=): field replacement.  Every use in
\* the source sets day=1, for which any year and month give a valid date.
Replace(d, y, m, dd) == [year |-> y, month |-> m, day |-> dd]

Pad2(n) == IF n < 10 THEN "0" \o ToString(n) ELSE ToString(n)

\* strftime('%Y-%m-%d') for four-digit years
Strftime(d) == ToString(d.year) \o "-" \o Pad2(d.month) \o "-" \o Pad2(d.day)

\* datetime.MINYEAR and the largest magnitude of timedelta(days=)
MINYEAR == 1
MAX_DELTA_DAYS == 999999999

\* Days in the years before year y (proleptic Gregorian calendar)
DaysBeforeYear(y) ==
    LET p == y - 1 IN p * 365 + (p \div 4) - (p \div 100) + (p \div 400)

RECURSIVE DaysBeforeMonth(_, _)
DaysBeforeMonth(y, m) ==
    IF m = 1 THEN 0 ELSE DaysBeforeMonth(y, m - 1) + DaysInMonth(y, m - 1)

\* date.toordinal(): 0001-01-01 is day 1
ToOrdinal(d) == DaysBeforeYear(d.year) + DaysBeforeMonth(d.year, d.month) + d.day

\* date.fromordinal(n) for n >= 1
FromOrdinal(ordinal) ==
    LET n0 == ordinal - 1
        n400 == n0 \div 146097
        r400 == n0 % 146097
        n100 == r400 \div 36524
        r100 == r400 % 36524
        n4 == r100 \div 1461
        r4 == r100 % 1461
        n1 == r4 \div 365
        r1 == r4 % 365
        y == n400 * 400 + n100 * 100 + n4 * 4 + n1 + 1
    IN IF n1 = 4 \/ n100 = 4
       THEN [year |-> y - 1, month |-> 12, day |-> 31]
       ELSE LET m == CHOOSE k \in 1..12 :
                        /\ DaysBeforeMonth(y, k) <= r1
                        /\ r1 < DaysBeforeMonth(y, k) + DaysInMonth(y, k)
            IN [year |-> y, month |-> m, day |-> r1 - DaysBeforeMonth(y, m) + 1]

\* d + timedelta(days=n): << date >>, or <<>> when the timedelta or the
\* resulting date is out of range (OverflowError).  Dates after year 9999
\* do not arise from the modelled reference dates and offsets.
PlusDays(d, n) ==
    IF n > MAX_DELTA_DAYS \/ n < -MAX_DELTA_DAYS THEN <<>>
    ELSE IF ToOrdinal(d) + n < ToOrdinal([year |-> MINYEAR, month |-> 1, day |-> 1])
    THEN <<>>
    ELSE << FromOrdinal(ToOrdinal(d) + n) >>

----------------------------------------------------------------------------
(* Query text *)

Markers == { "hyeonjae", "ibeon dal", "seobiseu", "bigyo", "byeonhwa",
             "wonin", "wae", "bunseok", "eotteon", "mongnok", "rijeon",
             "yecheuk", "jeonmang", "sangse", "jase", "naljja" }

Digits == { "0", "1", "2", "3", "4", "5", "6", "7", "8", "9" }

DigitValue(c) ==
    CASE c = "0" -> 0 [] c = "1" -> 1 [] c = "2" -> 2 [] c = "3" -> 3
      [] c = "4" -> 4 [] c = "5" -> 5 [] c = "6" -> 6 [] c = "7" -> 7
      [] c = "8" -> 8 [] c = "9" -> 9

\* `marker in query_lower` for a marker word
Contains(q, w) == w \in q.words

\* `"<c1><c2>" in query_lower` for two different characters of the phrase
ContainsPair(q, c1, c2) ==
    \E i \in 1..(Len(q.phrase) - 1) :
        q.phrase[i][1] = c1 /\ q.phrase[i + 1][1] = c2

\* sys.int_info.default_max_str_digits: int(str) raises ValueError for a
\* decimal string of more digits
INT_MAX_STR_DIGITS == 4300

RECURSIVE NumDigits(_)
NumDigits(run) ==
    IF run = <<>> THEN 0 ELSE run[1][2] + NumDigits(Tail(run))

RECURSIVE Repeat10(_, _, _)
Repeat10(acc, d, n) == IF n = 0 THEN acc ELSE Repeat10(acc * 10 + d, d, n - 1)

RECURSIVE DecimalValue(_, _)
DecimalValue(acc, run) ==
    IF run = <<>> THEN acc
    ELSE DecimalValue(Repeat10(acc, DigitValue(run[1][1]), run[1][2]), Tail(run))

\* int(s) for a string of decimal digits: <<value>>, or <<>> for ValueError
PyInt(run) ==
    IF NumDigits(run) > INT_MAX_STR_DIGITS THEN <<>>
    ELSE << DecimalValue(0, run) >>

\* The end of the maximal digit run that starts at segment i
RECURSIVE RunEnd(_, _)
RunEnd(p, i) ==
    IF i < Len(p) /\ p[i + 1][1] \in Digits THEN RunEnd(p, i + 1) ELSE i

\* Does "gae"? "wol" follow segment j
SuffixFollows(p, j) ==
    \/ j + 1 <= Len(p) /\ p[j + 1][1] = "wol"
    \/ /\ j + 2 <= Len(p)
       /\ p[j + 1] = <<"gae", 1>>
       /\ p[j + 2][1] = "wol"

\* re.findall(r'(\d+)gae?wol', text): the digit runs of the matches, left to
\* right.  \d+ is greedy and a digit cannot start the suffix, so a match
\* starts at the first digit of a maximal run and captures the whole run.
RECURSIVE FindAllFrom(_, _)
FindAllFrom(p, i) ==
    IF i > Len(p) THEN <<>>
    ELSE IF p[i][1] \in Digits
         THEN LET j == RunEnd(p, i) IN
              IF SuffixFollows(p, j)
              THEN << SubSeq(p, i, j) >> \o FindAllFrom(p, j + 1)
              ELSE FindAllFrom(p, j + 1)
         ELSE FindAllFrom(p, i + 1)

FindAll(q) == FindAllFrom(q.phrase, 1)

----------------------------------------------------------------------------
(* IntentRouter: CostAnalysisAssistant.extract_intent_and_parameters *)

\* An argument mapping is a record of options: <<>> is an absent key and
\* <<v>> is the key bound to v.
NoArguments ==
    [ baseline_start |-> <<>>, baseline_end |-> <<>>,
      comparison_start |-> <<>>, comparison_end |-> <<>>,
      months_back |-> <<>>, months_ahead |-> <<>>, dimension |-> <<>>,
      start_date |-> <<>>, end_date |-> <<>>, granularity |-> <<>> ]

\* A variant whose December arm forgets to advance the year
ComparisonArgumentsSameYear(now) ==
    LET current_month_start == Strftime(Replace(now, now.year, now.month, 1))
        last_month_start ==
            IF now.month = 1
            THEN Strftime(Replace(now, now.year - 1, 12, 1))
            ELSE Strftime(Replace(now, now.year, now.month - 1, 1))
        current_month_end ==
            IF now.month = 12
            THEN Strftime(Replace(now, now.year, 1, 1))
            ELSE Strftime(Replace(now, now.year, now.month + 1, 1))
    IN [ baseline_start |-> << last_month_start >>,
         baseline_end |-> << current_month_start >>,
         comparison_start |-> << current_month_start >>,
         comparison_end |-> << current_month_end >>,
         months_back |-> <<>>, months_ahead |-> <<>>, dimension |-> <<>>,
         start_date |-> <<>>, end_date |-> <<>>, granularity |-> <<>> ]

\* Lines 83-102 and 107-126: the baseline and comparison date arguments
ComparisonArguments(now) ==
    LET current_month_start == Strftime(Replace(now, now.year, now.month, 1))
        last_month_start ==
            IF now.month = 1
            THEN Strftime(Replace(now, now.year - 1, 12, 1))
            ELSE Strftime(Replace(now, now.year, now.month - 1, 1))
        last_month_end ==
            IF now.month = 1
            THEN Strftime(Replace(now, now.year, now.month, 1))
            ELSE current_month_start
        current_month_end ==
            IF now.month = 12
            THEN Strftime(Replace(now, now.year + 1, 1, 1))
            ELSE Strftime(Replace(now, now.year, now.month + 1, 1))
    IN [ NoArguments EXCEPT
           !.baseline_start = << last_month_start >>,
           !.baseline_end = << last_month_end >>,
           !.comparison_start = << current_month_start >>,
           !.comparison_end = << current_month_end >> ]

\* Lines 133-137: the get_service_costs arm.  raised is TRUE when int()
\* raises out of the function.
ServiceCostsIntent(q) ==
    LET month_numbers == FindAll(q) IN
    IF month_numbers # <<>>
    THEN LET n == PyInt(month_numbers[1]) IN
         IF n = <<>>
         THEN [ raised |-> TRUE, function |-> "get_service_costs",
                arguments |-> NoArguments ]
         ELSE [ raised |-> FALSE, function |-> "get_service_costs",
                arguments |-> [ NoArguments EXCEPT !.months_back = n ] ]
    ELSE [ raised |-> FALSE, function |-> "get_service_costs",
           arguments |-> NoArguments ]

Returned(f, a) == [ raised |-> FALSE, function |-> f, arguments |-> a ]

\* Lines 76-161: the if/elif chain over query_lower
RuleChain(q, now) ==
    IF Contains(q, "hyeonjae") \/ Contains(q, "ibeon dal")
    THEN Returned("get_current_month_cost", NoArguments)
    ELSE IF Contains(q, "seobiseu")
            /\ (Contains(q, "bigyo") \/ Contains(q, "byeonhwa"))
    THEN Returned("get_cost_comparisons", ComparisonArguments(now))
    ELSE IF \/ Contains(q, "wonin")
            \/ Contains(q, "wae")
            \/ (Contains(q, "byeonhwa") /\ Contains(q, "bunseok"))
    THEN Returned("get_cost_drivers", ComparisonArguments(now))
    ELSE IF Contains(q, "seobiseu")
    THEN IF Contains(q, "eotteon") \/ Contains(q, "mongnok")
         THEN Returned("get_dimension_values",
                       [ NoArguments EXCEPT !.dimension = << "SERVICE" >> ])
         ELSE ServiceCostsIntent(q)
    ELSE IF Contains(q, "rijeon")
    THEN IF Contains(q, "eotteon") \/ Contains(q, "mongnok")
         THEN Returned("get_dimension_values",
                       [ NoArguments EXCEPT !.dimension = << "REGION" >> ])
         ELSE Returned("get_regional_costs", NoArguments)
    ELSE IF Contains(q, "yecheuk") \/ Contains(q, "jeonmang")
    THEN Returned("get_cost_forecast", NoArguments)
    ELSE IF Contains(q, "sangse") \/ Contains(q, "jase")
    THEN IF ContainsPair(q, "6", "wol") /\ ContainsPair(q, "7", "wol")
         THEN Returned("get_cost_and_usage",
                       [ NoArguments EXCEPT !.start_date = << "2025-06-01" >>,
                                            !.end_date = << "2025-08-01" >> ])
         ELSE IF Contains(q, "ilbyeol")
         THEN Returned("get_cost_and_usage",
                       [ NoArguments EXCEPT !.granularity = << "DAILY" >> ])
         ELSE Returned("get_cost_and_usage", NoArguments)
    ELSE IF Contains(q, "naljja") \/ Contains(q, "hyeonjae")
    THEN Returned("get_today_date", NoArguments)
    ELSE Returned("get_current_month_cost", NoArguments)

\* Line 69: str.lower().  The characters of the modelled texts (Hangul,
\* digits, blank) have no case, so lower() returns them unchanged.
Lower(q) == [ words |-> q.words, phrase |-> q.phrase ]

\* A variant that tests the date marker before every other rule
extract_date_rule_first(user_query, now) ==
    IF Contains(Lower(user_query), "naljja")
    THEN Returned("get_today_date", NoArguments)
    ELSE RuleChain(Lower(user_query), now)

\* A variant whose first rule tests "ibeon dal" only, so that "hyeonjae"
\* is left to the last rule
extract_current_marker_late(user_query, now) ==
    LET q == Lower(user_query)
        r == RuleChain([ q EXCEPT !.words = @ \ { "hyeonjae" } ], now)
    IN IF /\ Contains(q, "hyeonjae")
          /\ ~Contains(q, "ibeon dal")
          /\ ~r.raised
          /\ r.function = "get_current_month_cost"
       THEN Returned("get_today_date", NoArguments)
       ELSE r

extract_intent_and_parameters(user_query, now) ==
    RuleChain(Lower(user_query), now)

----------------------------------------------------------------------------
(* ComparisonEngine: get_cost_comparisons and get_cost_drivers *)

\* A Python list's slice lst[:n]
Take(s, n) == SubSeq(s, 1, IF Len(s) < n THEN Len(s) ELSE n)

Abs(x) == IF x < 0 THEN -x ELSE x

\* The keys the billing source can report, in a fixed reference order
KeyCount == IF MaxGroups > MaxFiller + 1 THEN MaxGroups ELSE MaxFiller + 1

KeyUniverse ==
    << "EC2", "S3" >> \o [ i \in 1..KeyCount |-> "f" \o ToString(i) ]

\* Iteration order of a Python set of strings.  It is a function of the
\* strings' hashes, which the interpreter salts with a per-process seed:
\* any order can occur, and one process gives equal sets equal orders.
\* Seed s rotates the reference order by s \div 2 places and reverses it
\* when s is odd.
SetOrder(S, seed) ==
    LET ref == SelectSeq(KeyUniverse, LAMBDA k : k \in S)
        n == Len(ref)
        r == IF n = 0 THEN 0 ELSE (seed \div 2) % n
        rot == [ i \in 1..n |-> ref[((i - 1 + r) % n) + 1] ]
    IN IF seed % 2 = 1 THEN [ i \in 1..n |-> rot[n + 1 - i] ] ELSE rot

\* dict.get(key, 0)
Get(d, k) == IF k \in DOMAIN d THEN d[k] ELSE 0

\* A variant that treats a key missing from the comparison as unchanged
ChangeRowMissingUnchanged(item, baseline_costs, comparison_costs) ==
    LET baseline == Get(baseline_costs, item)
        comparison == IF item \in DOMAIN comparison_costs
                      THEN comparison_costs[item] ELSE baseline
        change == comparison - baseline
    IN [ item |-> item, baseline |-> baseline, comparison |-> comparison,
         change |-> change,
         percent |-> IF baseline > 0
                     THEN [ num |-> change * 100, den |-> baseline ]
                     ELSE [ num |-> IF comparison > 0 THEN 100 ELSE 0, den |-> 1 ] ]

\* Lines 425-433: the tuple appended to changes for one item.  percent is the
\* exact quotient num / den with den > 0.
ChangeRow(item, baseline_costs, comparison_costs) ==
    LET baseline == Get(baseline_costs, item)
        comparison == Get(comparison_costs, item)
        change == comparison - baseline
    IN [ item |-> item, baseline |-> baseline, comparison |-> comparison,
         change |-> change,
         percent |-> IF baseline > 0
                     THEN [ num |-> change * 100, den |-> baseline ]
                     ELSE [ num |-> IF comparison > 0 THEN 100 ELSE 0, den |-> 1 ] ]

\* A variant that ranks by the signed change
SortKeySigned(row) == row.change

\* Line 436: key=lambda x: abs(x[3])
SortKey(row) == Abs(row.change)

\* Insert row behind every element whose key is at least its own
RECURSIVE InsertDescending(_, _)
InsertDescending(sorted, row) ==
    IF sorted = <<>> THEN << row >>
    ELSE IF SortKey(Head(sorted)) >= SortKey(row)
         THEN << Head(sorted) >> \o InsertDescending(Tail(sorted), row)
         ELSE << row >> \o sorted

\* list.sort(key=..., reverse=True): descending by key and stable (equal
\* keys keep the order of the list)
RECURSIVE SortDescending(_)
SortDescending(rows) ==
    IF rows = <<>> THEN <<>>
    ELSE InsertDescending(SortDescending(SubSeq(rows, 1, Len(rows) - 1)),
                          rows[Len(rows)])

\* Round n / d (d > 0) to the nearest integer, ties to even
RoundHalfEven(n, d) ==
    LET q == n \div d
        r == n % d
    IN IF 2 * r < d THEN q
       ELSE IF 2 * r > d THEN q + 1
       ELSE IF q % 2 = 0 THEN q ELSE q + 1

\* f"{percent:+.1f}": the percentage in tenths
PercentTenths(percent) == RoundHalfEven(percent.num * 10, percent.den)

TOP_CHANGES == 10         \* line 439: changes[:10]
SIGNIFICANT == 1          \* line 440: abs(change) > 0.01, in cents

\* A variant whose threshold test is not strict
RenderRowsInclusive(sorted) ==
    LET shown == SelectSeq(Take(sorted, TOP_CHANGES),
                           LAMBDA r : Abs(r.change) >= SIGNIFICANT)
    IN [ i \in 1..Len(shown) |->
           << "row", shown[i].item, shown[i].baseline, shown[i].comparison,
              shown[i].change, PercentTenths(shown[i].percent) >> ]

\* Lines 439-443: the text blocks of the rendered rows
RenderRows(sorted) ==
    LET shown == SelectSeq(Take(sorted, TOP_CHANGES),
                           LAMBDA r : Abs(r.change) > SIGNIFICANT)
    IN [ i \in 1..Len(shown) |->
           << "row", shown[i].item, shown[i].baseline, shown[i].comparison,
              shown[i].change, PercentTenths(shown[i].percent) >> ]

\* Lines 421-436: the list changes after the sort
SortedChanges(baseline_costs, comparison_costs, seed) ==
    LET all_items == (DOMAIN baseline_costs) \cup (DOMAIN comparison_costs)
        order == SetOrder(all_items, seed)
    IN SortDescending([ i \in 1..Len(order) |->
                          ChangeRow(order[i], baseline_costs, comparison_costs) ])

\* The marker line "📊 주요 변화 (절대값 기준):\n"
ChangesMarker == << "marker" >>

\* get_cost_comparisons (group_by = "SERVICE").  A text is a sequence of
\* blocks; err is the message of the exception raised by the billing source,
\* "" when it answers.
get_cost_comparisons(args, base, comp, err, seed) ==
    IF err # ""
    THEN [ changes |-> <<>>,
           result |-> << << "error", "get_cost_comparisons", err >> >> ]
    ELSE LET sorted == SortedChanges(base, comp, seed) IN
         [ changes |-> sorted,
           result |-> << << "title", "get_cost_comparisons" >>,
                         << "baseline_period", args.baseline_start, args.baseline_end >>,
                         << "comparison_period", args.comparison_start, args.comparison_end >>,
                         ChangesMarker >>
                      \o RenderRows(sorted) ]

\* Index of the first block of text equal to sep at or after i, 0 if none
RECURSIVE Find(_, _, _)
Find(text, sep, i) ==
    IF i > Len(text) THEN 0
    ELSE IF text[i] = sep THEN i ELSE Find(text, sep, i + 1)

\* str.split(sep), sep occurring in text: the pieces between occurrences
RECURSIVE Split(_, _)
Split(text, sep) ==
    LET i == Find(text, sep, 1) IN
    IF i = 0 THEN << text >>
    ELSE << SubSeq(text, 1, i - 1) >> \o Split(SubSeq(text, i + 1, Len(text)), sep)

\* A variant that takes the piece in front of the marker
DriverSectionBeforeMarker(comparison_text) ==
    IF Find(comparison_text, ChangesMarker, 1) # 0
    THEN Split(comparison_text, ChangesMarker)[1]
    ELSE << << "unanalysable" >> >>

\* Line 461: comparison_result.split(marker)[1] if marker in
\* comparison_result else "데이터를 분석할 수 없습니다."
DriverSection(comparison_text) ==
    IF Find(comparison_text, ChangesMarker, 1) # 0
    THEN Split(comparison_text, ChangesMarker)[2]
    ELSE << << "unanalysable" >> >>

\* get_cost_drivers: the nested comparison, relabelled
get_cost_drivers(args, base, comp, err, seed) ==
    LET nested == get_cost_comparisons(args, base, comp, err, seed).result IN
    << << "title", "get_cost_drivers" >>,
       << "baseline_period", args.baseline_start, args.baseline_end >>,
       << "comparison_period", args.comparison_start, args.comparison_end >>,
       << "drivers_heading" >> >>
    \o DriverSection(nested)

----------------------------------------------------------------------------
(* CostDataGateway: the nine operations of standard_mcp_server.py *)

\* What the billing source does with one request: it answers with data,
\* answers with an empty result list, answers without the expected top-level
\* field, or raises an exception with a message
Answer(kind) == << kind >>
Raises(message) == << "raises", message >>

\* The outcome of a function body: it returns text, or an exception with a
\* message leaves it.  periods lists the TimePeriod of every request sent to
\* the billing source, in order.
Return(text, periods) ==
    [ raised |-> FALSE, message |-> "", text |-> text, periods |-> periods ]
Raise(message, periods) ==
    [ raised |-> TRUE, message |-> message, text |-> <<>>, periods |-> periods ]

\* A variant without the except clause
TryWithoutExcept(op, body) == body

\* try: body / except Exception as e: return f"<prefix of op>: {str(e)}"
TryExcept(op, body) ==
    IF body.raised
    THEN Return(<< << "error", op, body.message >> >>, body.periods)
    ELSE body

\* The exception raised while reading the response r under key field:
\* the source's own exception, or KeyError(field), whose str() is the
\* quoted field name; "" when the response can be read
ReadFailure(r, field) ==
    IF r[1] = "raises" THEN r[2]
    ELSE IF r[1] = "malformed" THEN "'" \o field \o "'"
    ELSE ""

\* today.replace(day=1)
FirstOfMonth(now) == Replace(now, now.year, now.month, 1)

\* Lines 192-195: the first day of the month after now
FirstOfNextMonth(now) ==
    IF now.month = 12
    THEN Replace(now, now.year + 1, 1, 1)
    ELSE Replace(now, now.year, now.month + 1, 1)

\* Lines 217-218, 256-257, 326-328, 515-516:
\* (today.replace(day=1) - timedelta(days=32*n)).replace(day=1), as an option
MonthsBackStart(now, n) ==
    LET back == PlusDays(FirstOfMonth(now), -(32 * n)) IN
    IF back = <<>> THEN <<>>
    ELSE << Replace(back[1], back[1].year, back[1].month, 1) >>

TimePeriod(start, end) == [ Start |-> start, End |-> end ]

\* A variant whose December arm keeps the year
current_month_body_same_year(now, source) ==
    LET start_date == Strftime(FirstOfMonth(now))
        end_date == Strftime(Replace(now, now.year, (now.month % 12) + 1, 1))
        sent == << TimePeriod(start_date, end_date) >>
        failure == ReadFailure(source[1], "ResultsByTime")
    IN IF failure # "" THEN Raise(failure, sent)
       ELSE IF source[1][1] = "empty"
       THEN Return(<< << "not_found", "get_current_month_cost" >> >>, sent)
       ELSE Return(<< << "total", "get_current_month_cost",
                         start_date, end_date >> >>, sent)

\* Lines 189-208: the body of get_current_month_cost
current_month_body(now, source) ==
    LET start_date == Strftime(FirstOfMonth(now))
        end_date == Strftime(FirstOfNextMonth(now))
        sent == << TimePeriod(start_date, end_date) >>
        failure == ReadFailure(source[1], "ResultsByTime")
    IN IF failure # "" THEN Raise(failure, sent)
       ELSE IF source[1][1] = "empty"
       THEN Return(<< << "not_found", "get_current_month_cost" >> >>, sent)
       ELSE Return(<< << "total", "get_current_month_cost",
                         start_date, end_date >> >>, sent)

get_current_month_cost(now, source) ==
    TryExcept("get_current_month_cost", current_month_body(now, source))

SERVICE_TOP == 10         \* line 243: services[:10]
DETAIL_TOP == 15          \* line 361: groups[:15]
DIMENSION_TOP == 20       \* line 484: response['DimensionValues'][:20]

\* Answers whose content is modelled: the groups of every time bucket of
\* 'ResultsByTime', each group a record [name, amount] with the amount in
\* cents, or the list 'DimensionValues'
AnswerGroups(buckets) == << "groups", buckets >>
AnswerValues(values) == << "values", values >>

\* Insert group behind every element whose amount is at least its own
RECURSIVE InsertByAmount(_, _)
InsertByAmount(sorted, group) ==
    IF sorted = <<>> THEN << group >>
    ELSE IF Head(sorted).amount >= group.amount
         THEN << Head(sorted) >> \o InsertByAmount(Tail(sorted), group)
         ELSE << group >> \o sorted

\* list.sort(key=lambda x: x[1], reverse=True): descending by amount and
\* stable
RECURSIVE SortByAmount(_)
SortByAmount(groups) ==
    IF groups = <<>> THEN <<>>
    ELSE InsertByAmount(SortByAmount(SubSeq(groups, 1, Len(groups) - 1)),
                        groups[Len(groups)])

\* Lines 235-239 and 351-357: the groups with amount > 0, in response order
PositiveGroups(groups) == SelectSeq(groups, LAMBDA g : g.amount > 0)

\* A variant that renders every sorted group
ItemLinesUncut(groups, limit) ==
    LET shown == SortByAmount(PositiveGroups(groups))
    IN [ i \in 1..Len(shown) |-> << "item", shown[i].name, shown[i].amount >> ]

\* Lines 241-244, 280-283 and 359-365: the sort and the lines of one bucket.
\* limit is << n >> for the slice [:n] and <<>> where the source has no slice.
ItemLines(groups, limit) ==
    LET sorted == SortByAmount(PositiveGroups(groups))
        shown == IF limit = <<>> THEN sorted ELSE Take(sorted, limit[1])
    IN [ i \in 1..Len(shown) |-> << "item", shown[i].name, shown[i].amount >> ]

\* Lines 229-245 and 268-284: the loop over response['ResultsByTime'], from
\* bucket i on
RECURSIVE BucketBlocks(_, _, _)
BucketBlocks(buckets, limit, i) ==
    IF i > Len(buckets) THEN <<>>
    ELSE << << "period", i >> >> \o ItemLines(buckets[i], limit)
         \o << << "blank" >> >> \o BucketBlocks(buckets, limit, i + 1)

\* Lines 344-374: the loop of get_cost_and_usage; a bucket without groups
\* shows its total
RECURSIVE DetailBlocks(_, _)
DetailBlocks(buckets, i) ==
    IF i > Len(buckets) THEN <<>>
    ELSE << << "period", i >> >>
         \o (IF buckets[i] # <<>>
             THEN ItemLines(buckets[i], << DETAIL_TOP >>)
             ELSE << << "total", i >> >>)
         \o << << "blank" >> >> \o DetailBlocks(buckets, i + 1)

\* Lines 484-493: the numbered values and the trailer (the modelled values
\* carry no attributes)
ValueBlocks(values) ==
    LET shown == Take(values, DIMENSION_TOP) IN
    [ i \in 1..Len(shown) |-> << "value", i, shown[i] >> ]
    \o (IF Len(values) > DIMENSION_TOP
        THEN << << "more", Len(values), DIMENSION_TOP >> >>
        ELSE <<>>)

\* A variant whose range ends today instead of on the first of the month
months_back_body_to_today(op, now, months_back, source) ==
    LET end_date == Strftime(now)
        start == MonthsBackStart(now, months_back)
    IN IF start = <<>> THEN Raise("date value out of range", <<>>)
       ELSE LET start_date == Strftime(start[1])
                sent == << TimePeriod(start_date, end_date) >>
                failure == ReadFailure(source[1], "ResultsByTime")
            IN IF failure # "" THEN Raise(failure, sent)
               ELSE Return(<< << "title", op, start_date, end_date >> >>, sent)

\* Lines 216-247 and 255-286: the bodies of get_service_costs and
\* get_regional_costs, which differ in the grouping key and the labels
months_back_body(op, now, months_back, source) ==
    LET end_date == Strftime(FirstOfMonth(now))
        start == MonthsBackStart(now, months_back)
    IN IF start = <<>> THEN Raise("date value out of range", <<>>)
       ELSE LET start_date == Strftime(start[1])
                sent == << TimePeriod(start_date, end_date) >>
                failure == ReadFailure(source[1], "ResultsByTime")
            IN IF failure # "" THEN Raise(failure, sent)
               ELSE IF source[1][1] = "empty"
               THEN Return(<< << "title", op, start_date, end_date >> >>, sent)
               ELSE IF source[1][1] = "groups"
               THEN Return(<< << "title", op, start_date, end_date >> >>
                           \o BucketBlocks(source[1][2],
                                           IF op = "get_service_costs"
                                           THEN << SERVICE_TOP >> ELSE <<>>, 1),
                           sent)
               ELSE Return(<< << "title", op, start_date, end_date >>,
                              << "periods", op >> >>, sent)

get_service_costs(now, months_back, source) ==
    TryExcept("get_service_costs",
              months_back_body("get_service_costs", now, months_back, source))

get_regional_costs(now, months_back, source) ==
    TryExcept("get_regional_costs",
              months_back_body("get_regional_costs", now, months_back, source))

MONTHS_AHEAD_DAYS == 30   \* line 296: timedelta(days=30*months_ahead)

\* Lines 294-315: the body of get_cost_forecast
forecast_body(now, months_ahead, source) ==
    LET start_date == Strftime(now)
        end == PlusDays(now, MONTHS_AHEAD_DAYS * months_ahead)
    IN IF end = <<>> THEN Raise("date value out of range", <<>>)
       ELSE LET end_date == Strftime(end[1])
                sent == << TimePeriod(start_date, end_date) >>
                failure == ReadFailure(source[1], "ForecastResultsByTime")
            IN IF failure # "" THEN Raise(failure, sent)
               ELSE IF source[1][1] = "empty"
               THEN Return(<< << "title", "get_cost_forecast", start_date, end_date >>,
                              << "total_forecast" >> >>, sent)
               ELSE Return(<< << "title", "get_cost_forecast", start_date, end_date >>,
                              << "periods", "get_cost_forecast" >>,
                              << "total_forecast" >> >>, sent)

get_cost_forecast(now, months_ahead, source) ==
    TryExcept("get_cost_forecast", forecast_body(now, months_ahead, source))

DEFAULT_MONTHS == 2       \* line 328: timedelta(days=32*2)

\* Lines 323-376: the body of get_cost_and_usage (group_by and metric at
\* their defaults).  "" is the default of start_date and of end_date.
cost_and_usage_body(now, start_date, end_date, granularity, source) ==
    LET back == MonthsBackStart(now, DEFAULT_MONTHS)
        end_sent == IF end_date = "" THEN Strftime(FirstOfMonth(now)) ELSE end_date
    IN IF start_date = "" /\ back = <<>> THEN Raise("date value out of range", <<>>)
       ELSE LET start_sent == IF start_date = "" THEN Strftime(back[1]) ELSE start_date
                sent == << TimePeriod(start_sent, end_sent) >>
                failure == ReadFailure(source[1], "ResultsByTime")
            IN IF failure # "" THEN Raise(failure, sent)
               ELSE IF source[1][1] = "empty"
               THEN Return(<< << "title", "get_cost_and_usage", start_sent, end_sent >>,
                              << "settings", granularity >> >>, sent)
               ELSE IF source[1][1] = "groups"
               THEN Return(<< << "title", "get_cost_and_usage", start_sent, end_sent >>,
                              << "settings", granularity >> >>
                           \o DetailBlocks(source[1][2], 1), sent)
               ELSE Return(<< << "title", "get_cost_and_usage", start_sent, end_sent >>,
                              << "settings", granularity >>,
                              << "periods", "get_cost_and_usage" >> >>, sent)

get_cost_and_usage(now, start_date, end_date, granularity, source) ==
    TryExcept("get_cost_and_usage",
              cost_and_usage_body(now, start_date, end_date, granularity, source))

DIMENSION_DAYS == 90      \* line 474: timedelta(days=90)

\* Lines 471-497: the body of get_dimension_values.  A response without
\* 'DimensionValues' is reported as "no values"; nothing else is read.
dimension_values_body(now, dimension, start_date, end_date, source) ==
    LET defaults == start_date = "" \/ end_date = ""
        back == PlusDays(now, -DIMENSION_DAYS)
    IN IF defaults /\ back = <<>> THEN Raise("date value out of range", <<>>)
       ELSE LET start_sent == IF defaults THEN Strftime(back[1]) ELSE start_date
                end_sent == IF defaults THEN Strftime(now) ELSE end_date
                sent == << TimePeriod(start_sent, end_sent) >>
                title == << "title", "get_dimension_values", dimension,
                            start_sent, end_sent >>
            IN IF source[1][1] = "raises" THEN Raise(source[1][2], sent)
               ELSE IF source[1][1] = "malformed"
               THEN Return(<< title, << "no_values" >> >>, sent)
               ELSE IF source[1][1] = "empty"
               THEN Return(<< title >>, sent)
               ELSE IF source[1][1] = "values"
               THEN Return(<< title >> \o ValueBlocks(source[1][2]), sent)
               ELSE Return(<< title, << "values", dimension >> >>, sent)

get_dimension_values(now, dimension, start_date, end_date, source) ==
    TryExcept("get_dimension_values",
              dimension_values_body(now, dimension, start_date, end_date, source))

\* Lines 505-522: the body of get_today_date (the clock time and the weekday
\* are not modelled)
today_date_body(now) ==
    LET back == MonthsBackStart(now, 1) IN
    IF back = <<>> THEN Raise("date value out of range", <<>>)
    ELSE Return(<< << "title", "get_today_date" >>,
                   << "date", Strftime(now) >>,
                   << "month", now.month >>,
                   << "year", now.year >>,
                   << "current_month_start", Strftime(FirstOfMonth(now)) >>,
                   << "last_month", Strftime(back[1]),
                      Strftime(FirstOfMonth(now)) >> >>, <<>>)

get_today_date(now) == TryExcept("get_today_date", today_date_body(now))

----------------------------------------------------------------------------
(* Router inputs *)

LongRun == INT_MAX_STR_DIGITS + 1

PhraseSegments ==
    { <<"3", 1>>, <<"6", 1>>, <<"7", 1>>, <<"gae", 1>>, <<"wol", 1>>,
      <<" ", 1>>, <<"9", LongRun>> }

Phrases == UNION { [1..n -> PhraseSegments] : n \in 0..MaxPhrase }

ReferenceDate == [year |-> 2025, month |-> 7, day |-> 15]

\* Every combination of the sixteen rule markers, without a phrase
MarkerQueries == { [words |-> w, phrase |-> <<>>] : w \in SUBSET Markers }

\* Every phrase, with the words that lead to the arms which read it
PhraseWords == { "seobiseu", "eotteon", "sangse", "ilbyeol", "naljja" }

PhraseQueries ==
    { [words |-> w, phrase |-> p] : w \in SUBSET PhraseWords, p \in Phrases }

\* The queries tried on every reference date
DatedQueries ==
    { [words |-> {"seobiseu", "bigyo"}, phrase |-> <<>>],
      [words |-> {"seobiseu", "byeonhwa", "bunseok"}, phrase |-> <<>>],
      [words |-> {"seobiseu", "wae", "wonin", "bunseok"}, phrase |-> <<>>],
      [words |-> {"byeonhwa", "bunseok"}, phrase |-> <<>>],
      [words |-> {"seobiseu"}, phrase |-> << <<"3", 1>>, <<"gae", 1>>, <<"wol", 1>> >>] }

NoIntent == [ function |-> "", arguments |-> NoArguments ]

NoQuery == [ words |-> {}, phrase |-> <<>> ]

----------------------------------------------------------------------------
(* Billing data *)

FreeKeys == { "EC2", "S3" }

\* Amounts in cents: a credit, nothing, the threshold 0.01, and more
Amounts == { -2, 0, 1, 3 }

FreeMaps == UNION { [S -> Amounts] : S \in SUBSET FreeKeys }

FillerKeys(n) == { "f" \o ToString(i) : i \in 1..n }

FillerIndex(k) == CHOOSE i \in 1..(MaxFiller + 1) : k = "f" \o ToString(i)

\* Filler key i costs 0.50 in the baseline period and changes by i + 1
\* cents, upwards for odd i and downwards for even i
FillerBaseline(n) == [ k \in FillerKeys(n) |-> 50 ]

FillerComparison(n) ==
    [ k \in FillerKeys(n) |->
        LET i == FillerIndex(k) IN
        IF i % 2 = 1 THEN 50 + (i + 1) ELSE 50 - (i + 1) ]

\* Scenario 4 of the specification
Scenario4Baseline == [ k \in FreeKeys |-> IF k = "EC2" THEN 12050 ELSE 400 ]
Scenario4Comparison == [ k \in FreeKeys |-> IF k = "EC2" THEN 8000 ELSE 400 ]

\* The arguments the router gives both operations on the reference date
EngineArguments ==
    LET a == ComparisonArguments(ReferenceDate) IN
    [ baseline_start |-> a.baseline_start[1], baseline_end |-> a.baseline_end[1],
      comparison_start |-> a.comparison_start[1],
      comparison_end |-> a.comparison_end[1] ]

----------------------------------------------------------------------------
(* CostDataGateway: the comparison operations and the dispatch *)

\* The exception that ends the body of get_cost_comparisons, "" if none.
\* Both requests are sent (lines 385-398) before either response is read
\* (lines 406 and 414).
ComparisonFailure(source) ==
    IF source[1][1] = "raises" THEN source[1][2]
    ELSE IF source[2][1] = "raises" THEN source[2][2]
    ELSE IF source[1][1] = "malformed" \/ source[2][1] = "malformed"
    THEN "'ResultsByTime'"
    ELSE ""

\* Lines 405-410 and 413-418: the dict filled from the groups of a bucket,
\* a later group replacing an earlier one of the same name
RECURSIVE CostMap(_)
CostMap(groups) ==
    IF groups = <<>> THEN <<>>
    ELSE LET last == groups[Len(groups)]
             before == CostMap(SubSeq(groups, 1, Len(groups) - 1))
         IN [ k \in (DOMAIN before) \cup { last.name } |->
                IF k = last.name THEN last.amount ELSE before[k] ]

\* The groups of the first result of a response
Groups(r, data) ==
    IF r[1] = "data" THEN data
    ELSE IF r[1] = "groups" /\ r[2] # <<>> THEN CostMap(r[2][1])
    ELSE <<>>

\* The requests get_cost_comparisons sends
ComparisonPeriods(args, source) ==
    << TimePeriod(args.baseline_start, args.baseline_end) >>
    \o (IF source[1][1] = "raises" THEN <<>>
        ELSE << TimePeriod(args.comparison_start, args.comparison_end) >>)

\* The keyword arguments of the two comparison operations as their
\* parameters
ComparisonParameters(kwargs) ==
    [ baseline_start |-> kwargs.baseline_start[1],
      baseline_end |-> kwargs.baseline_end[1],
      comparison_start |-> kwargs.comparison_start[1],
      comparison_end |-> kwargs.comparison_end[1] ]

\* dict.get(key, default) on an argument mapping; also a parameter's default
Opt(o, default) == IF o = <<>> THEN default ELSE o[1]

\* The parameters of each operation
Accepted(function_name) ==
    CASE function_name \in { "get_service_costs", "get_regional_costs" } ->
           { "months_back" }
      [] function_name = "get_cost_forecast" -> { "months_ahead" }
      [] function_name = "get_cost_and_usage" ->
           { "start_date", "end_date", "granularity" }
      [] function_name \in { "get_cost_comparisons", "get_cost_drivers" } ->
           { "baseline_start", "baseline_end", "comparison_start", "comparison_end" }
      [] function_name = "get_dimension_values" ->
           { "dimension", "start_date", "end_date" }
      [] OTHER -> {}

\* The parameters without a default
Required(function_name) ==
    IF function_name \in { "get_cost_comparisons", "get_cost_drivers" }
    THEN { "baseline_start", "baseline_end", "comparison_start", "comparison_end" }
    ELSE {}

Supplied(kwargs) == { k \in DOMAIN kwargs : kwargs[k] # <<>> }

\* Can func(**kwargs) bind its parameters
Binds(function_name, kwargs) ==
    /\ Supplied(kwargs) \subseteq Accepted(function_name)
    /\ Required(function_name) \subseteq Supplied(kwargs)

\* func(**kwargs) for the nine operations, kwargs binding the parameters
Invoke(function_name, kwargs, now, source, seed) ==
    CASE function_name = "get_current_month_cost" ->
           get_current_month_cost(now, source)
      [] function_name = "get_service_costs" ->
           get_service_costs(now, Opt(kwargs.months_back, 3), source)
      [] function_name = "get_regional_costs" ->
           get_regional_costs(now, Opt(kwargs.months_back, 1), source)
      [] function_name = "get_cost_forecast" ->
           get_cost_forecast(now, Opt(kwargs.months_ahead, 3), source)
      [] function_name = "get_cost_and_usage" ->
           get_cost_and_usage(now, Opt(kwargs.start_date, ""),
                              Opt(kwargs.end_date, ""),
                              Opt(kwargs.granularity, "MONTHLY"), source)
      [] function_name = "get_cost_comparisons" ->
           Return(get_cost_comparisons(ComparisonParameters(kwargs),
                                       Groups(source[1], Scenario4Baseline),
                                       Groups(source[2], Scenario4Comparison),
                                       ComparisonFailure(source), seed).result,
                  ComparisonPeriods(ComparisonParameters(kwargs), source))
      [] function_name = "get_cost_drivers" ->
           Return(get_cost_drivers(ComparisonParameters(kwargs),
                                   Groups(source[1], Scenario4Baseline),
                                   Groups(source[2], Scenario4Comparison),
                                   ComparisonFailure(source), seed),
                  ComparisonPeriods(ComparisonParameters(kwargs), source))
      [] function_name = "get_dimension_values" ->
           get_dimension_values(now, Opt(kwargs.dimension, "SERVICE"),
                                Opt(kwargs.start_date, ""),
                                Opt(kwargs.end_date, ""), source)
      [] function_name = "get_today_date" -> get_today_date(now)

FunctionMap ==
    { "get_current_month_cost", "get_service_costs", "get_regional_costs",
      "get_cost_forecast", "get_cost_and_usage", "get_cost_comparisons",
      "get_cost_drivers", "get_dimension_values", "get_today_date" }

\* Lines 56-61 of call_mcp_function: the dispatch on the function name; a
\* call that cannot bind its parameters raises TypeError
dispatch_body(function_name, kwargs, now, source, seed) ==
    IF function_name \in FunctionMap
    THEN IF Binds(function_name, kwargs)
         THEN Invoke(function_name, kwargs, now, source, seed)
         ELSE Raise("unexpected keyword or missing argument", <<>>)
    ELSE Return(<< << "unknown function", function_name >> >>, <<>>)

\* A variant without the try statement of lines 35 and 63-65
call_mcp_function_unguarded(function_name, kwargs, now, source, seed) ==
    dispatch_body(function_name, kwargs, now, source, seed)

call_mcp_function(function_name, kwargs, now, source, seed) ==
    TryExcept("call_mcp_function",
              dispatch_body(function_name, kwargs, now, source, seed))

----------------------------------------------------------------------------
(* The state when no component has been called *)

vars == <<query, today, intent, rpc, hashseed, baseline_data, comparison_data,
          billing_error, changes, comparison_result, drivers_result, called,
          conversation_history, pc, frame, asked, appended,
          request, billing_source, response, session_messages, awaiting>>

RouterIdle ==
    /\ query = NoQuery
    /\ today = ReferenceDate
    /\ intent = NoIntent
    /\ rpc = "start"

EngineIdle ==
    /\ hashseed = 0
    /\ baseline_data = <<>>
    /\ comparison_data = <<>>
    /\ billing_error = ""
    /\ changes = <<>>
    /\ comparison_result = <<>>
    /\ drivers_result = <<>>
    /\ called = {}

NoResponse ==
    [ via |-> "", raised |-> FALSE, message |-> "", text |-> <<>>, periods |-> <<>> ]

AllData == << Answer("data"), Answer("data") >>

GatewayIdle ==
    /\ request = NoIntent
    /\ billing_source = AllData
    /\ response = NoResponse

\* app.py lines 107-108: a session starts without messages
ShellIdle ==
    /\ session_messages = <<>>
    /\ awaiting = FALSE

----------------------------------------------------------------------------
(* ConversationOrchestrator: CostAnalysisAssistant.generate_response *)

HISTORY_LIMIT == 10       \* line 30: len(self.conversation_history) > 10
CONTEXT_WINDOW == 5       \* line 203: self.conversation_history[-5:]

\* A variant that keeps the oldest n elements, lst[:n]
Oldest(s, n) == Take(s, n)

\* A Python list's slice lst[-n:]
Last(s, n) == IF Len(s) <= n THEN s ELSE SubSeq(s, Len(s) - n + 1, Len(s))

\* Line 238: the text returned by the except arm for exception e
ErrorMessage(e) == << "sorry, error while generating the response", e >>

Callers == { 1, 2 }

NoFrame ==
    [ id |-> 0, user_query |-> NoQuery, function |-> "",
      arguments |-> NoArguments, billing |-> <<>>, mcp_result |-> <<>>,
      slice |-> <<>>, messages |-> <<>>, assistant_response |-> <<>>,
      exception |-> "", returned |-> <<>>,
      gateway_calls |-> 0, model_calls |-> 0, returns |-> 0 ]

\* The texts users send: a forecast question, a question about this month,
\* and a service question holding LongRun digits before "wol"
OrchestratorQueries ==
    { [words |-> {"yecheuk"}, phrase |-> <<>>],
      [words |-> {"ibeon dal"}, phrase |-> <<>>],
      [words |-> {"seobiseu"}, phrase |-> << <<"9", LongRun>>, <<"wol", 1>> >>] }

\* The billing source answers every request, or refuses the first one
OrchestratorSources ==
    { AllData, << Raises("AccessDeniedException"), Answer("data") >> }

OrchestratorIdle ==
    /\ conversation_history = <<>>
    /\ pc = [ c \in Callers |-> "idle" ]
    /\ frame = [ c \in Callers |-> NoFrame ]
    /\ asked = 0
    /\ appended = <<>>

\* Line 165: generate_response(user_query) is entered
Ask(c) ==
    /\ pc[c] \in { "idle", "done" }
    /\ asked < MaxQueries
    /\ \E q \in OrchestratorQueries :
          frame' = [ frame EXCEPT ![c] = [ NoFrame EXCEPT !.id = asked + 1,
                                                           !.user_query = q ] ]
    /\ asked' = asked + 1
    /\ pc' = [ pc EXCEPT ![c] = "extract" ]
    /\ UNCHANGED <<conversation_history, appended>>
    /\ UNCHANGED <<router_vars, engine_vars, gateway_vars>>

\* The caller awaits generate_response(user_query)
StartQuery(c) == Ask(c) /\ UNCHANGED shell_vars

\* Lines 169-171: the router; an exception goes to the except arm
ExtractIntent(c) ==
    /\ pc[c] = "extract"
    /\ LET r == extract_intent_and_parameters(frame[c].user_query, today) IN
       IF r.raised
       THEN /\ frame' = [ frame EXCEPT ![c].exception = "ValueError" ]
            /\ pc' = [ pc EXCEPT ![c] = "except" ]
       ELSE /\ frame' = [ frame EXCEPT ![c].function = r.function,
                                       ![c].arguments = r.arguments ]
            /\ pc' = [ pc EXCEPT ![c] = "call_mcp" ]
    /\ UNCHANGED <<conversation_history, asked, appended>>
    /\ UNCHANGED <<router_vars, engine_vars, gateway_vars, shell_vars>>

\* The call of line 176 while the billing source behaves as s
McpCall(c, s) ==
    call_mcp_function(frame[c].function, frame[c].arguments, today, s, hashseed)

\* Line 176: mcp_result = await self.call_mcp_function(function, **arguments).
\* frame.billing records what the billing source did during the call.
CallMcpFunction(c) ==
    /\ pc[c] = "call_mcp"
    /\ \E s \in OrchestratorSources :
          /\ frame' = [ frame EXCEPT
                          ![c].billing = s,
                          ![c].gateway_calls = @ + 1,
                          ![c].exception = McpCall(c, s).message,
                          ![c].mcp_result = McpCall(c, s).text ]
          /\ pc' = [ pc EXCEPT ![c] = IF McpCall(c, s).raised
                                      THEN "except" ELSE "user_append" ]
    /\ UNCHANGED <<conversation_history, asked, appended>>
    /\ UNCHANGED <<router_vars, engine_vars, gateway_vars, shell_vars>>

\* add_to_history, line 28: the append
HistoryAppend(c, at, role, content, next) ==
    /\ pc[c] = at
    /\ conversation_history' =
          Append(conversation_history, [ role |-> role, content |-> content ])
    /\ appended' = Append(appended, [ role |-> role, content |-> content ])
    /\ pc' = [ pc EXCEPT ![c] = next ]
    /\ UNCHANGED <<frame, asked>>
    /\ UNCHANGED <<router_vars, engine_vars, gateway_vars, shell_vars>>

\* add_to_history, lines 30-31: the length test and the evaluation of
\* self.conversation_history[-10:]
HistoryCheck(c, at, store, next) ==
    /\ pc[c] = at
    /\ IF Len(conversation_history) > HISTORY_LIMIT
       THEN /\ frame' = [ frame EXCEPT
                            ![c].slice = Last(conversation_history, HISTORY_LIMIT) ]
            /\ pc' = [ pc EXCEPT ![c] = store ]
       ELSE /\ pc' = [ pc EXCEPT ![c] = next ]
            /\ UNCHANGED frame
    /\ UNCHANGED <<conversation_history, asked, appended>>
    /\ UNCHANGED <<router_vars, engine_vars, gateway_vars, shell_vars>>

\* add_to_history, line 31: the assignment to self.conversation_history
HistoryStore(c, at, next) ==
    /\ pc[c] = at
    /\ conversation_history' = frame[c].slice
    /\ frame' = [ frame EXCEPT ![c].slice = <<>> ]
    /\ pc' = [ pc EXCEPT ![c] = next ]
    /\ UNCHANGED <<asked, appended>>
    /\ UNCHANGED <<router_vars, engine_vars, gateway_vars, shell_vars>>

\* A variant that files the query under the assistant's role
UserAppendAsAssistant(c) ==
    HistoryAppend(c, "user_append", "assistant",
                  << "query", frame[c].id, frame[c].user_query >>, "user_check")

\* Line 179: self.add_to_history("user", user_query)
UserAppend(c) ==
    HistoryAppend(c, "user_append", "user",
                  << "query", frame[c].id, frame[c].user_query >>, "user_check")
UserCheck(c) == HistoryCheck(c, "user_check", "user_store", "messages")
UserStore(c) == HistoryStore(c, "user_store", "messages")

\* Lines 194-212: the message list of the request
PrepareMessages(c) ==
    /\ pc[c] = "messages"
    /\ frame' = [ frame EXCEPT ![c].messages =
                    Last(conversation_history, CONTEXT_WINDOW)
                    \o << [ role |-> "user",
                            content |-> << "question and data", frame[c].id,
                                           frame[c].mcp_result >> ] >> ]
    /\ pc' = [ pc EXCEPT ![c] = "invoke" ]
    /\ UNCHANGED <<conversation_history, asked, appended>>
    /\ UNCHANGED <<router_vars, engine_vars, gateway_vars, shell_vars>>

\* A variant that calls invoke_model a second time when the first call fails
InvokeModelRetrying(c) ==
    /\ pc[c] = "invoke"
    /\ \/ /\ frame' = [ frame EXCEPT
                          ![c].model_calls = @ + 1,
                          ![c].assistant_response = << "summary", frame[c].id >> ]
          /\ pc' = [ pc EXCEPT ![c] = "assistant_append" ]
       \/ \E e \in { "EndpointConnectionError", "KeyError" } :
             /\ frame' = [ frame EXCEPT
                             ![c].model_calls = @ + 1,
                             ![c].exception = IF frame[c].model_calls = 0 THEN "" ELSE e ]
             /\ pc' = [ pc EXCEPT ![c] = IF frame[c].model_calls = 0
                                         THEN "invoke" ELSE "except" ]
    /\ UNCHANGED <<conversation_history, asked, appended>>
    /\ UNCHANGED <<router_vars, engine_vars, gateway_vars, shell_vars>>

\* Lines 223-229: invoke_model and the reading of its response.  The service
\* answers, or the call raises, or the response lacks content[0].text
InvokeModel(c) ==
    /\ pc[c] = "invoke"
    /\ \/ /\ frame' = [ frame EXCEPT
                          ![c].model_calls = @ + 1,
                          ![c].assistant_response = << "summary", frame[c].id >> ]
          /\ pc' = [ pc EXCEPT ![c] = "assistant_append" ]
       \/ \E e \in { "EndpointConnectionError", "KeyError" } :
             /\ frame' = [ frame EXCEPT ![c].model_calls = @ + 1,
                                        ![c].exception = e ]
             /\ pc' = [ pc EXCEPT ![c] = "except" ]
    /\ UNCHANGED <<conversation_history, asked, appended>>
    /\ UNCHANGED <<router_vars, engine_vars, gateway_vars, shell_vars>>

\* Line 232: self.add_to_history("assistant", assistant_response)
AssistantAppend(c) ==
    HistoryAppend(c, "assistant_append", "assistant",
                  frame[c].assistant_response, "assistant_check")
AssistantCheck(c) == HistoryCheck(c, "assistant_check", "assistant_store", "return")
AssistantStore(c) == HistoryStore(c, "assistant_store", "return")

\* Line 234: return assistant_response
ReturnResponse(c) ==
    /\ pc[c] = "return"
    /\ frame' = [ frame EXCEPT ![c].returned = frame[c].assistant_response,
                               ![c].returns = @ + 1,
                               ![c].messages = <<>> ]
    /\ pc' = [ pc EXCEPT ![c] = "done" ]
    /\ UNCHANGED <<conversation_history, asked, appended>>
    /\ UNCHANGED <<router_vars, engine_vars, gateway_vars, shell_vars>>

\* Lines 236-238: the except arm logs and returns the error text
ExceptArm(c) ==
    /\ pc[c] = "except"
    /\ frame' = [ frame EXCEPT ![c].returned = ErrorMessage(frame[c].exception),
                               ![c].returns = @ + 1,
                               ![c].messages = <<>> ]
    /\ pc' = [ pc EXCEPT ![c] = "done" ]
    /\ UNCHANGED <<conversation_history, asked, appended>>
    /\ UNCHANGED <<router_vars, engine_vars, gateway_vars, shell_vars>>

GenerateResponse(c) ==
    \/ StartQuery(c)
    \/ ExtractIntent(c)
    \/ CallMcpFunction(c)
    \/ UserAppend(c)
    \/ UserCheck(c)
    \/ UserStore(c)
    \/ PrepareMessages(c)
    \/ InvokeModel(c)
    \/ AssistantAppend(c)
    \/ AssistantCheck(c)
    \/ AssistantStore(c)
    \/ ReturnResponse(c)
    \/ ExceptArm(c)

InitOrchestrator ==
    RouterIdle /\ EngineIdle /\ GatewayIdle /\ OrchestratorIdle /\ ShellIdle

\* One caller drives the conversation
NextOrchestrator == GenerateResponse(1)

SpecOrchestrator == InitOrchestrator /\ [][NextOrchestrator]_vars

\* The steps of a started generate_response call
Running(c) ==
    \/ ExtractIntent(c)
    \/ CallMcpFunction(c)
    \/ UserAppend(c)
    \/ UserCheck(c)
    \/ UserStore(c)
    \/ PrepareMessages(c)
    \/ InvokeModel(c)
    \/ AssistantAppend(c)
    \/ AssistantCheck(c)
    \/ AssistantStore(c)
    \/ ReturnResponse(c)
    \/ ExceptArm(c)

----------------------------------------------------------------------------
(* The router and the comparison engine *)

InitRouter ==
    /\ ShellIdle
    /\ \/ query \in MarkerQueries /\ today = ReferenceDate
       \/ query \in PhraseQueries /\ today = ReferenceDate
       \/ query \in DatedQueries /\ today \in Dates
    /\ intent = NoIntent
    /\ rpc = "start"
    /\ EngineIdle
    /\ GatewayIdle
    /\ OrchestratorIdle

\* One call of extract_intent_and_parameters(query) at time today
Classify ==
    /\ rpc = "start"
    /\ LET r == extract_intent_and_parameters(query, today) IN
       /\ intent' = [ function |-> r.function, arguments |-> r.arguments ]
       /\ rpc' = IF r.raised THEN "raised" ELSE "returned"
    /\ UNCHANGED <<query, today>>
    /\ UNCHANGED engine_vars
    /\ UNCHANGED orchestrator_vars
    /\ UNCHANGED gateway_vars
    /\ UNCHANGED shell_vars

NextRouter == Classify

SpecRouter == InitRouter /\ [][NextRouter]_vars

InitEngine ==
    /\ ShellIdle
    /\ RouterIdle
    /\ GatewayIdle
    /\ OrchestratorIdle
    /\ \/ /\ hashseed \in 0..(NumSeeds - 1)
          /\ billing_error = ""
          /\ \E n \in 0..MaxFiller, fb \in FreeMaps, fc \in FreeMaps :
                /\ baseline_data = fb @@ FillerBaseline(n)
                /\ comparison_data = fc @@ FillerComparison(n)
       \/ /\ hashseed \in 0..(NumSeeds - 1)
          /\ billing_error = ""
          /\ baseline_data = Scenario4Baseline
          /\ comparison_data = Scenario4Comparison
       \/ /\ hashseed = 0
          /\ billing_error = "AccessDeniedException"
          /\ baseline_data = <<>>
          /\ comparison_data = <<>>
    /\ changes = <<>>
    /\ comparison_result = <<>>
    /\ drivers_result = <<>>
    /\ called = {}

\* One call of get_cost_comparisons(**EngineArguments)
GetCostComparisons ==
    /\ "get_cost_comparisons" \notin called
    /\ LET r == get_cost_comparisons(EngineArguments, baseline_data,
                                     comparison_data, billing_error, hashseed) IN
       /\ changes' = r.changes
       /\ comparison_result' = r.result
    /\ called' = called \cup {"get_cost_comparisons"}
    /\ UNCHANGED <<hashseed, baseline_data, comparison_data, billing_error,
                   drivers_result>>
    /\ UNCHANGED router_vars
    /\ UNCHANGED orchestrator_vars
    /\ UNCHANGED gateway_vars
    /\ UNCHANGED shell_vars

\* One call of get_cost_drivers(**EngineArguments)
GetCostDrivers ==
    /\ "get_cost_drivers" \notin called
    /\ drivers_result' = get_cost_drivers(EngineArguments, baseline_data,
                                          comparison_data, billing_error, hashseed)
    /\ called' = called \cup {"get_cost_drivers"}
    /\ UNCHANGED <<hashseed, baseline_data, comparison_data, billing_error,
                   changes, comparison_result>>
    /\ UNCHANGED router_vars
    /\ UNCHANGED orchestrator_vars
    /\ UNCHANGED gateway_vars
    /\ UNCHANGED shell_vars

NextEngine == GetCostComparisons \/ GetCostDrivers

SpecEngine == InitEngine /\ [][NextEngine]_vars

----------------------------------------------------------------------------
(* The gateway: a routed query or a direct request, dispatched once *)

\* mcp_client.py lines 102-110: CostExplorerMCPClient.get_last_n_months_dates,
\* which has no try statement
get_last_n_months_dates(now, n) ==
    LET current_month_start == FirstOfMonth(now)
        back == PlusDays(current_month_start, -(32 * n))
    IN IF back = <<>> THEN Raise("date value out of range", <<>>)
       ELSE Return(<<>>, << TimePeriod(
                Strftime(Replace(back[1], back[1].year, back[1].month, 1)),
                Strftime(current_month_start)) >>)

\* mcp_client.py lines 112-122: CostExplorerMCPClient.get_current_month_dates
get_current_month_dates(now) ==
    LET start_date == Replace(now, now.year, now.month, 1)
        end_date == IF now.month = 12
                    THEN Replace(now, now.year + 1, 1, 1)
                    ELSE Replace(now, now.year, now.month + 1, 1)
    IN Return(<<>>, << TimePeriod(Strftime(start_date), Strftime(end_date)) >>)

\* Month counts: none, small ones, a year, and counts that take the date
\* before year 1 or the timedelta past its range
MonthsBackValues == { 0, 1, 2, 3, 6, 12, 25000, 40000000 }

Number(text) == [ i \in 1..Len(text) |-> << text[i], 1 >> ]

\* The queries sent through the router on every reference date
RoutedQueries ==
    { [words |-> {"ibeon dal"}, phrase |-> <<>>],
      [words |-> {"seobiseu", "bigyo"}, phrase |-> <<>>],
      [words |-> {"wonin"}, phrase |-> <<>>],
      [words |-> {"seobiseu", "mongnok"}, phrase |-> <<>>],
      [words |-> {"rijeon"}, phrase |-> <<>>],
      [words |-> {"yecheuk"}, phrase |-> <<>>],
      [words |-> {"sangse"}, phrase |-> <<>>],
      [words |-> {"sangse", "ilbyeol"}, phrase |-> <<>>],
      [words |-> {"sangse"}, phrase |-> << <<"6", 1>>, <<"wol", 1>>, <<" ", 1>>,
                                           <<"7", 1>>, <<"wol", 1>> >>],
      [words |-> {"naljja"}, phrase |-> <<>>],
      [words |-> {"seobiseu"}, phrase |-> <<>>] }
    \cup { [words |-> {"seobiseu"},
            phrase |-> Number(n) \o << <<"gae", 1>>, <<"wol", 1>> >>] :
           n \in { <<"0">>, <<"1">>, <<"2">>, <<"3">>, <<"1", "2">> } }

Responses == { "data", "empty", "malformed" }

\* What the source does with the first and with the second request
Sources ==
    { << a, b >> : a, b \in { Answer(k) : k \in Responses }
                           \cup { Raises("AccessDeniedException") } }

DateTexts == { "", "2025-06-01", "2025-08-01" }

\* Keyword arguments of direct requests
DirectArguments ==
    { NoArguments, ComparisonArguments(ReferenceDate),
      [ NoArguments EXCEPT !.baseline_start = << "2025-06-01" >> ] }
    \cup { [ NoArguments EXCEPT !.months_back = << n >> ] : n \in MonthsBackValues }
    \cup { [ NoArguments EXCEPT !.months_ahead = << n >> ] : n \in { 0, 3, 40000000 } }
    \cup { [ NoArguments EXCEPT !.start_date = << a >>, !.end_date = << b >> ] :
           a, b \in DateTexts }
    \cup { [ NoArguments EXCEPT !.start_date = << a >> ] : a \in DateTexts }
    \cup { [ NoArguments EXCEPT !.end_date = << b >>, !.dimension = << "REGION" >> ] :
           b \in DateTexts }

DirectRequests ==
    { [ function |-> f, arguments |-> a ] :
        f \in FunctionMap \cup { "get_budget" }, a \in DirectArguments }

InitGateway ==
    /\ ShellIdle
    /\ \/ /\ query \in RoutedQueries
          /\ today \in Dates
          /\ request = NoIntent
          /\ billing_source \in { AllData,
                                  << Raises("AccessDeniedException"), Answer("data") >> }
       \/ /\ query = NoQuery
          /\ today = ReferenceDate
          /\ request \in DirectRequests
          /\ billing_source \in Sources
    /\ intent = NoIntent
    /\ rpc = "start"
    /\ response = NoResponse
    /\ EngineIdle
    /\ OrchestratorIdle

\* The router's answer to the query
ClassifyQuery ==
    /\ request = NoIntent
    /\ Classify

Ended(via, r) ==
    [ via |-> via, raised |-> r.raised, message |-> r.message,
      text |-> r.text, periods |-> r.periods ]

\* ai_assistant.py lines 169-176: the routed intent goes to call_mcp_function
DispatchIntent ==
    /\ rpc = "returned"
    /\ request = NoIntent
    /\ response = NoResponse
    /\ request' = intent
    /\ response' = Ended("call_mcp_function",
                         call_mcp_function(intent.function, intent.arguments,
                                           today, billing_source, hashseed))
    /\ UNCHANGED billing_source
    /\ UNCHANGED <<router_vars, engine_vars, orchestrator_vars, shell_vars>>

\* call_mcp_function(function_name, **kwargs) with a direct request
DispatchRequest ==
    /\ request # NoIntent
    /\ rpc = "start"
    /\ response = NoResponse
    /\ response' = Ended("call_mcp_function",
                         call_mcp_function(request.function, request.arguments,
                                           today, billing_source, hashseed))
    /\ UNCHANGED <<request, billing_source>>
    /\ UNCHANGED <<router_vars, engine_vars, orchestrator_vars, shell_vars>>

\* One of the nine operations called by name with keyword arguments that
\* bind its parameters
CallOperation ==
    /\ request # NoIntent
    /\ rpc = "start"
    /\ response = NoResponse
    /\ request.function \in FunctionMap
    /\ Binds(request.function, request.arguments)
    /\ response' = Ended(request.function,
                         Invoke(request.function, request.arguments,
                                today, billing_source, hashseed))
    /\ UNCHANGED <<request, billing_source>>
    /\ UNCHANGED <<router_vars, engine_vars, orchestrator_vars, shell_vars>>

\* CostExplorerMCPClient.get_current_month_dates()
ClientCurrentMonth ==
    /\ request = NoIntent
    /\ rpc = "start"
    /\ response = NoResponse
    /\ response' = Ended("get_current_month_dates", get_current_month_dates(today))
    /\ UNCHANGED <<request, billing_source>>
    /\ UNCHANGED <<router_vars, engine_vars, orchestrator_vars, shell_vars>>

\* CostExplorerMCPClient.get_last_n_months_dates(n)
ClientLastMonths ==
    /\ request = NoIntent
    /\ rpc = "start"
    /\ response = NoResponse
    /\ billing_source = AllData
    /\ \E n \in MonthsBackValues :
          /\ request' = [ function |-> "get_last_n_months_dates",
                          arguments |-> [ NoArguments EXCEPT !.months_back = << n >> ] ]
          /\ response' = Ended("get_last_n_months_dates",
                               get_last_n_months_dates(today, n))
    /\ UNCHANGED billing_source
    /\ UNCHANGED <<router_vars, engine_vars, orchestrator_vars, shell_vars>>

NextGateway ==
    \/ ClassifyQuery
    \/ DispatchIntent
    \/ DispatchRequest
    \/ CallOperation
    \/ ClientCurrentMonth
    \/ ClientLastMonths

SpecGateway == InitGateway /\ [][NextGateway]_vars

----------------------------------------------------------------------------
(* The breakdowns: an operation called on a billing response with content *)

Patterns == { "rising", "falling", "ties", "credits" }

\* The amount in cents of group i of n: all different, or equal in threes
\* with zeros, or with credits and a zero in front
Amount(pattern, i, n) ==
    CASE pattern = "rising" -> i
      [] pattern = "falling" -> n + 1 - i
      [] pattern = "ties" -> i % 3
      [] pattern = "credits" -> i - 3

BucketOf(n, pattern) ==
    [ i \in 1..n |-> [ name |-> "f" \o ToString(i), amount |-> Amount(pattern, i, n) ] ]

\* Responses of one bucket, of one bucket and an empty one, and of two
\* buckets
GroupResponses ==
    { AnswerGroups(<< BucketOf(n, p) >>) : n \in 0..MaxGroups, p \in Patterns }
    \cup { AnswerGroups(<< BucketOf(n, p), <<>> >>) : n \in 0..MaxGroups, p \in Patterns }
    \cup { AnswerGroups(<< BucketOf(n, p), BucketOf(MaxGroups - n, p) >>) :
             n \in 0..MaxGroups, p \in Patterns }

ValueResponses ==
    { AnswerValues([ i \in 1..n |-> "v" \o ToString(i) ]) : n \in 0..MaxValues }

InitBreakdown ==
    /\ ShellIdle
    /\ RouterIdle
    /\ OrchestratorIdle
    /\ baseline_data = <<>>
    /\ comparison_data = <<>>
    /\ billing_error = ""
    /\ changes = <<>>
    /\ comparison_result = <<>>
    /\ drivers_result = <<>>
    /\ called = {}
    /\ response = NoResponse
    /\ \/ /\ hashseed = 0
          /\ request \in { [ function |-> f, arguments |-> NoArguments ] :
                             f \in { "get_service_costs", "get_regional_costs",
                                     "get_cost_and_usage" } }
          /\ \E r \in GroupResponses : billing_source = << r, Answer("data") >>
       \/ /\ hashseed = 0
          /\ request = [ function |-> "get_dimension_values", arguments |-> NoArguments ]
          /\ \E r \in ValueResponses : billing_source = << r, Answer("data") >>
       \/ /\ hashseed \in 0..(NumSeeds - 1)
          /\ request \in { [ function |-> f,
                              arguments |-> ComparisonArguments(ReferenceDate) ] :
                             f \in { "get_cost_comparisons", "get_cost_drivers" } }
          /\ \E n \in 0..MaxGroups, p \in Patterns :
                billing_source = << AnswerGroups(<< BucketOf(n, "rising") >>),
                                    AnswerGroups(<< [ i \in 1..n |->
                                       [ name |-> "f" \o ToString(i),
                                         amount |-> i + Amount(p, i, n) ] ] >>) >>

NextBreakdown == CallOperation \/ DispatchRequest

SpecBreakdown == InitBreakdown /\ [][NextBreakdown]_vars

----------------------------------------------------------------------------
(* Two UI sessions on the one cached assistant (app.py, get_assistant) *)

\* The turns of n earlier queries, each answered before the next was asked
RECURSIVE EarlierTurns(_)
EarlierTurns(n) ==
    IF n = 0 THEN <<>>
    ELSE EarlierTurns(n - 1)
         \o << [ role |-> "user",
                 content |-> << "query", n, [words |-> {"yecheuk"}, phrase |-> <<>>] >> ],
               [ role |-> "assistant", content |-> << "summary", n >> ] >>

\* Queries that may be in flight at once: one per session, each session's
\* script run being one thread
InFlight == Cardinality(Callers)

\* The instance after MaxQueries - InFlight queries of one session
InitShared ==
    /\ ShellIdle
    /\ RouterIdle
    /\ EngineIdle
    /\ GatewayIdle
    /\ pc = [ c \in Callers |-> "idle" ]
    /\ frame = [ c \in Callers |-> NoFrame ]
    /\ asked = MaxQueries - InFlight
    /\ appended = EarlierTurns(MaxQueries - InFlight)
    /\ conversation_history = Last(EarlierTurns(MaxQueries - InFlight), HISTORY_LIMIT)

\* app.py line 285: each session calls generate_response on the instance
\* that get_assistant caches; the threads interleave between their steps
NextShared == \E c \in Callers : GenerateResponse(c)

SpecShared == InitShared /\ [][NextShared]_vars

----------------------------------------------------------------------------
(* The presentation shell: one UI session of app.py *)

MAX_CHAT_HISTORY == 50    \* config.py line 32

\* app.py lines 114-123: add_message_to_history(role, content)
add_message_to_history(messages, role, content) ==
    LET added == Append(messages, [ role |-> role, content |-> content ]) IN
    IF Len(added) > MAX_CHAT_HISTORY THEN Last(added, MAX_CHAT_HISTORY) ELSE added

\* A session opened after MaxQueries - MaxPrompts queries of earlier
\* sessions: its message list is empty, the cached assistant has their turns
InitShell ==
    /\ RouterIdle
    /\ EngineIdle
    /\ GatewayIdle
    /\ ShellIdle
    /\ pc = [ c \in Callers |-> "idle" ]
    /\ frame = [ c \in Callers |-> NoFrame ]
    /\ asked = MaxQueries - MaxPrompts
    /\ appended = EarlierTurns(MaxQueries - MaxPrompts)
    /\ conversation_history = Last(EarlierTurns(MaxQueries - MaxPrompts), HISTORY_LIMIT)

\* app.py lines 274-285: the prompt is added to the session's messages and
\* process_user_query calls generate_response on the cached assistant
SubmitPrompt ==
    /\ ~awaiting
    /\ Ask(1)
    /\ session_messages' =
          add_message_to_history(session_messages, "user",
                                 << "query", frame'[1].id, frame'[1].user_query >>)
    /\ awaiting' = TRUE

\* app.py lines 285-287: the response is shown and added to the messages
ShowResponse ==
    /\ awaiting
    /\ pc[1] = "done"
    /\ session_messages' =
          add_message_to_history(session_messages, "assistant", frame[1].returned)
    /\ awaiting' = FALSE
    /\ UNCHANGED <<router_vars, engine_vars, gateway_vars, orchestrator_vars>>

\* A variant of the button that also resets the assistant's history
ClearChatAndHistory ==
    /\ ~awaiting
    /\ session_messages' = <<>>
    /\ conversation_history' = <<>>
    /\ UNCHANGED <<pc, frame, asked, appended, awaiting>>
    /\ UNCHANGED <<router_vars, engine_vars, gateway_vars>>

\* app.py lines 250-252: the button that clears the chat
ClearChat ==
    /\ ~awaiting
    /\ session_messages' = <<>>
    /\ UNCHANGED awaiting
    /\ UNCHANGED <<router_vars, engine_vars, gateway_vars, orchestrator_vars>>

NextShell ==
    \/ SubmitPrompt
    \/ Running(1)
    \/ ShowResponse
    \/ ClearChat

SpecShell == InitShell /\ [][NextShell]_vars

----------------------------------------------------------------------------
(* Claims about the router *)

Operations ==
    { "get_current_month_cost", "get_service_costs", "get_regional_costs",
      "get_cost_forecast", "get_cost_and_usage", "get_cost_comparisons",
      "get_cost_drivers", "get_dimension_values", "get_today_date" }

\* The rule table of the specification: is rule i satisfied by the markers
\* present in the text
RuleSatisfied(i, w) ==
    CASE i = 1 -> "hyeonjae" \in w \/ "ibeon dal" \in w
      [] i = 2 -> "seobiseu" \in w /\ ({"bigyo", "byeonhwa"} \cap w # {})
      [] i = 3 -> ({"wonin", "wae"} \cap w # {}) \/ {"byeonhwa", "bunseok"} \subseteq w
      [] i = 4 -> "seobiseu" \in w
      [] i = 5 -> "rijeon" \in w
      [] i = 6 -> {"yecheuk", "jeonmang"} \cap w # {}
      [] i = 7 -> {"sangse", "jase"} \cap w # {}
      [] i = 8 -> "naljja" \in w
      [] i = 9 -> TRUE

Listing(w) == {"eotteon", "mongnok"} \cap w # {}

\* The operation, and the dimension where it has one, that rule i selects
RuleSelects(i, w) ==
    CASE i = 1 -> << "get_current_month_cost", <<>> >>
      [] i = 2 -> << "get_cost_comparisons", <<>> >>
      [] i = 3 -> << "get_cost_drivers", <<>> >>
      [] i = 4 -> IF Listing(w) THEN << "get_dimension_values", << "SERVICE" >> >>
                  ELSE << "get_service_costs", <<>> >>
      [] i = 5 -> IF Listing(w) THEN << "get_dimension_values", << "REGION" >> >>
                  ELSE << "get_regional_costs", <<>> >>
      [] i = 6 -> << "get_cost_forecast", <<>> >>
      [] i = 7 -> << "get_cost_and_usage", <<>> >>
      [] i = 8 -> << "get_today_date", <<>> >>
      [] i = 9 -> << "get_current_month_cost", <<>> >>

FirstSatisfied(w) ==
    CHOOSE i \in 1..9 : RuleSatisfied(i, w) /\ \A j \in 1..(i - 1) : ~RuleSatisfied(j, w)

\* C1: for every combination of markers in the query, the router selects the
\* operation (and dimension) of the first satisfied rule of the fixed order
\* of nine rules; a later rule never overrides an earlier satisfied one.
C1_FirstMatchWins ==
    rpc # "start" =>
        << intent.function, intent.arguments.dimension >>
            = RuleSelects(FirstSatisfied(query.words), query.words)

\* A classified query that satisfies rules 2, 4, 6 and 8 at once
C1_Witness ==
    /\ rpc = "returned"
    /\ {"seobiseu", "bigyo", "yecheuk", "naljja"} \subseteq query.words
    /\ "hyeonjae" \notin query.words /\ "ibeon dal" \notin query.words
    /\ intent.function = "get_cost_comparisons"

\* C2: the router is total: every call returns, without raising, an intent
\* whose function is one of the nine operations, and a query with no marker
\* gives get_current_month_cost with empty arguments.
C2_RouterTotal ==
    rpc # "start" =>
        /\ rpc = "returned"
        /\ intent.function \in Operations
        /\ (query.words \cap Markers = {} =>
                /\ intent.function = "get_current_month_cost"
                /\ intent.arguments = NoArguments)

\* The first day of the month that is k months after month (y, m), as text
MonthStartText(y, m, k) ==
    LET idx == y * 12 + (m - 1) + k
        yy == idx \div 12
        mm == (idx % 12) + 1
    IN ToString(yy) \o (IF mm < 10 THEN "-0" ELSE "-") \o ToString(mm) \o "-01"

\* C3: on every reference date an intent routed to get_cost_comparisons or
\* get_cost_drivers carries baseline_start = first day of the previous
\* calendar month, baseline_end = comparison_start = first day of the
\* reference month, comparison_end = first day of the next month; on
\* 2025-07-15 these are 2025-06-01, 2025-07-01, 2025-07-01, 2025-08-01.
C3_ComparisonDates ==
    (rpc = "returned" /\ intent.function \in {"get_cost_comparisons", "get_cost_drivers"}) =>
        /\ intent.arguments.baseline_start = << MonthStartText(today.year, today.month, -1) >>
        /\ intent.arguments.baseline_end = << MonthStartText(today.year, today.month, 0) >>
        /\ intent.arguments.comparison_start = << MonthStartText(today.year, today.month, 0) >>
        /\ intent.arguments.comparison_end = << MonthStartText(today.year, today.month, 1) >>
        /\ (today = [year |-> 2025, month |-> 7, day |-> 15] =>
                /\ intent.arguments.baseline_start = << "2025-06-01" >>
                /\ intent.arguments.baseline_end = << "2025-07-01" >>
                /\ intent.arguments.comparison_start = << "2025-07-01" >>
                /\ intent.arguments.comparison_end = << "2025-08-01" >>)

\* A cost-driver intent classified on the last day of a December
C3_Witness ==
    /\ rpc = "returned"
    /\ intent.function = "get_cost_drivers"
    /\ today.month = 12 /\ today.day = 31
    /\ intent.arguments.comparison_end = << ToString(today.year + 1) \o "-01-01" >>

\* The first integer of the text that is immediately followed by "gae" "wol"
\* (the suffix 개월), as an option
RECURSIVE FirstGaeWolFrom(_, _)
FirstGaeWolFrom(p, i) ==
    IF i > Len(p) THEN <<>>
    ELSE IF p[i][1] \in Digits
         THEN LET j == RunEnd(p, i) IN
              IF j + 2 <= Len(p) /\ p[j + 1][1] = "gae" /\ p[j + 1][2] = 1
                 /\ p[j + 2][1] = "wol"
              THEN << DecimalValue(0, SubSeq(p, i, j)) >>
              ELSE FirstGaeWolFrom(p, j + 1)
         ELSE FirstGaeWolFrom(p, i + 1)

\* C4: an intent routed to get_service_costs carries months_back = N exactly
\* when the query contains an integer N immediately followed by the suffix
\* 개월 (the first such N), and no months_back otherwise.
C4_MonthsBackOnlyFromGaeWol ==
    (rpc = "returned" /\ intent.function = "get_service_costs") =>
        intent.arguments.months_back = FirstGaeWolFrom(query.phrase, 1)

\* Scenario 2: "3개월" with the service marker gives months_back = 3
C4_Witness ==
    /\ rpc = "returned"
    /\ intent.function = "get_service_costs"
    /\ query.phrase = << <<"3", 1>>, <<"gae", 1>>, <<"wol", 1>> >>
    /\ intent.arguments.months_back = << 3 >>

----------------------------------------------------------------------------
(* Claims about the comparison engine *)

Compared == "get_cost_comparisons" \in called /\ billing_error = ""

AllItems == (DOMAIN baseline_data) \cup (DOMAIN comparison_data)

\* C5: for every key and all amounts, zero and negative ones included, the
\* row satisfies delta = comparison - baseline, and percentChange = 100 when
\* baseline = 0 and comparison > 0, 0 when both are 0, and
\* 100 * delta / baseline otherwise.
C5_DeltaAndPercent ==
    Compared =>
        \A i \in 1..Len(changes) :
            LET r == changes[i] IN
            /\ r.baseline = Get(baseline_data, r.item)
            /\ r.comparison = Get(comparison_data, r.item)
            /\ r.change = r.comparison - r.baseline
            /\ IF r.baseline = 0 /\ r.comparison > 0
               THEN r.percent.num = 100 * r.percent.den
               ELSE IF r.baseline = 0 /\ r.comparison = 0
               THEN r.percent.num = 0
               ELSE r.percent.num * r.baseline = 100 * r.change * r.percent.den

RowOf(k) == changes[CHOOSE i \in 1..Len(changes) : changes[i].item = k]

Quad(r) == << r.baseline, r.comparison, r.change, r.percent.num, r.percent.den >>

\* One row for each key of the union of the two maps, a missing amount
\* counted as 0, and no other row
OneRowPerKey ==
    /\ Len(changes) = Cardinality(AllItems)
    /\ { changes[i].item : i \in 1..Len(changes) } = AllItems
    /\ \A i \in 1..Len(changes) :
          /\ changes[i].baseline = Get(baseline_data, changes[i].item)
          /\ changes[i].comparison = Get(comparison_data, changes[i].item)
    /\ (AllItems = {} => changes = <<>>)

C7_SortedByAbsDelta ==
    Compared =>
        \A i \in 1..(Len(changes) - 1) :
            Abs(changes[i].change) >= Abs(changes[i + 1].change)

\* A large decrease ranked directly above a smaller increase
C7_Witness ==
    /\ Compared
    /\ \E i \in 1..(Len(changes) - 1) :
          /\ changes[i].change < 0
          /\ changes[i + 1].change > 0
          /\ -changes[i].change > changes[i + 1].change

IsRow(block) == block[1] = "row"

RenderedRows == SelectSeq(comparison_result, IsRow)

Significant(r) == Abs(r.change) > SIGNIFICANT

\* C8: a row is rendered iff it is among the first 10 rows of the sorted
\* order and has abs(delta) > 0.01; the rendered rows are those that
\* filtering before the cut would show; Scenario 4 renders only EC2 with
\* delta -40.50 and -33.6%.
C8_RenderedRows ==
    Compared =>
        /\ \A i \in 1..Len(changes) :
              (\E j \in 1..Len(RenderedRows) : RenderedRows[j][2] = changes[i].item)
                  <=> (i <= 10 /\ Abs(changes[i].change) > 1)
        /\ LET first == Take(SelectSeq(changes, Significant), 10) IN
           /\ Len(RenderedRows) = Len(first)
           /\ \A j \in 1..Len(first) :
                 /\ RenderedRows[j][2] = first[j].item
                 /\ RenderedRows[j][5] = first[j].change
        /\ (baseline_data = Scenario4Baseline /\ comparison_data = Scenario4Comparison) =>
              RenderedRows = << << "row", "EC2", 12050, 8000, -4050, -336 >> >>

\* More significant rows than the cut admits, and a row at the threshold
C8_Witness ==
    /\ Compared
    /\ Len(SelectSeq(changes, Significant)) > 10
    /\ Len(RenderedRows) = 10
    /\ \E i \in 1..Len(changes) : Abs(changes[i].change) = 1

\* C9: for the same arguments and billing data the ranked-rows section of
\* get_cost_drivers is the ranked-rows section of get_cost_comparisons, the
\* same rows in the same order, and the outputs differ only in the headings
\* in front of it.
C9_DriversAreComparisonRows ==
    (Compared /\ "get_cost_drivers" \in called) =>
        /\ Len(drivers_result) = Len(comparison_result)
        /\ \A i \in 1..Len(drivers_result) :
              IF i <= 4
              THEN ~IsRow(drivers_result[i]) /\ ~IsRow(comparison_result[i])
              ELSE IsRow(drivers_result[i]) /\ drivers_result[i] = comparison_result[i]
        /\ Len(drivers_result) = 4 + Len(RenderedRows)

\* Both operations have answered on data that renders several rows
C9_Witness ==
    /\ Compared
    /\ "get_cost_drivers" \in called
    /\ Len(RenderedRows) > 2
    /\ SelectSeq(drivers_result, IsRow) = RenderedRows

----------------------------------------------------------------------------
(* Claims about the orchestrator *)

SummarizationFailures == { "EndpointConnectionError", "KeyError" }

\* C10: when a stage of generate_response raises, in particular when the
\* summarization service is unreachable or its response is malformed, the
\* call returns a localized error message instead of propagating, and by
\* then conversation_history holds an assistant turn with that message.
\* Stated for the summarization failures the claim singles out.
C10_FailureAppendsAssistantTurn ==
    \A c \in Callers :
        (pc[c] = "done" /\ frame[c].exception \in SummarizationFailures) =>
            /\ frame[c].returned = ErrorMessage(frame[c].exception)
            /\ \E i \in 1..Len(conversation_history) :
                  /\ conversation_history[i].role = "assistant"
                  /\ conversation_history[i].content = frame[c].returned

----------------------------------------------------------------------------
(* Claims about the conversation history and gateway failures *)

Succeeded(c) == pc[c] = "done" /\ frame[c].exception = ""

\* The most recent min(n, Len(s)) elements of s, in the order of s
MostRecent(s, n) ==
    LET k == IF Len(s) < n THEN Len(s) ELSE n IN
    [ i \in 1..k |-> s[Len(s) - k + i] ]

UserTurn(c) ==
    [ role |-> "user", content |-> << "query", frame[c].id, frame[c].user_query >> ]

AssistantTurn(c) ==
    [ role |-> "assistant", content |-> frame[c].assistant_response ]

\* The turns appended for query number k
TurnsOf(k) == SelectSeq(appended, LAMBDA t : t.content[2] = k)

\* C11: when a single caller's query has been processed successfully, the
\* turns appended for it are exactly two, the user turn with the query text
\* and then the assistant turn with the summary; they are the last two turns
\* appended and the last two turns of conversation_history.
C11_TwoTurnsPerQuery ==
    \A c \in Callers :
        Succeeded(c) =>
            /\ frame[c].assistant_response = << "summary", frame[c].id >>
            /\ TurnsOf(frame[c].id) = << UserTurn(c), AssistantTurn(c) >>
            /\ MostRecent(appended, 2) = << UserTurn(c), AssistantTurn(c) >>
            /\ MostRecent(conversation_history, 2) = << UserTurn(c), AssistantTurn(c) >>

C11_Witness ==
    /\ Succeeded(1)
    /\ Len(appended) > HISTORY_LIMIT
    /\ Len(conversation_history) = HISTORY_LIMIT

InAddToHistory(c) ==
    pc[c] \in { "user_check", "user_store", "assistant_check", "assistant_store" }

\* C12: whenever the single caller is outside add_to_history,
\* conversation_history has at most 10 turns and is the most recent
\* min(n, 10) of the n turns appended so far, in insertion order; building
\* the summarization window leaves conversation_history as it is.
C12_HistoryIsLastTen ==
    /\ [](~InAddToHistory(1) =>
            /\ Len(conversation_history) <= HISTORY_LIMIT
            /\ conversation_history = MostRecent(appended, HISTORY_LIMIT))
    /\ [][pc[1] = "messages" => conversation_history' = conversation_history]_vars

C12_Witness ==
    /\ pc[1] = "invoke"
    /\ Len(appended) > HISTORY_LIMIT
    /\ conversation_history = MostRecent(appended, HISTORY_LIMIT)
    /\ Len(frame[1].messages) = CONTEXT_WINDOW + 1

\* The billing source refused the request of caller c's gateway operation
BillingFailed(c) ==
    /\ frame[c].billing # <<>>
    /\ frame[c].billing[1][1] = "raises"
    /\ frame[c].function # "get_today_date"

AfterUserTurn(c) ==
    pc[c] \in { "user_check", "user_store", "messages", "invoke",
                "assistant_append", "assistant_check", "assistant_store",
                "return", "except", "done" }

\* The steps left before a call at position p has returned, at most
StepsLeft(p) ==
    CASE p = "user_append" -> 9 [] p = "user_check" -> 8 [] p = "user_store" -> 7
      [] p = "messages" -> 6 [] p = "invoke" -> 5 [] p = "assistant_append" -> 4
      [] p = "assistant_check" -> 3 [] p = "assistant_store" -> 2
      [] p = "return" -> 1 [] p = "except" -> 1 [] OTHER -> 0

Invoked(c) ==
    pc[c] \in { "invoke", "assistant_append", "assistant_check",
                "assistant_store", "return", "except" }

\* C13: when the billing call of the chosen gateway operation fails, the
\* failure reaches generate_response as the operation's error text and
\* raises nothing; the user turn is appended; the summarization service is
\* invoked with that text as the retrieved data; when it answers, the
\* assistant turn follows the user turn; and the call returns: until it has,
\* a step is always possible and every step brings the return nearer.
C13_GatewayFailureIsData ==
    /\ [](\A c \in Callers :
            BillingFailed(c) =>
              /\ frame[c].mcp_result =
                    << << "error", frame[c].function, frame[c].billing[1][2] >> >>
              /\ frame[c].exception \in SummarizationFailures \cup { "" }
              /\ (AfterUserTurn(c) => TurnsOf(frame[c].id)[1] = UserTurn(c))
              /\ (Invoked(c) =>
                    frame[c].messages[Len(frame[c].messages)] =
                       [ role |-> "user",
                         content |-> << "question and data", frame[c].id,
                                        frame[c].mcp_result >> ])
              /\ (Succeeded(c) =>
                    MostRecent(conversation_history, 2) =
                       << UserTurn(c), AssistantTurn(c) >>)
              /\ (pc[c] # "done" => ENABLED Running(c)))
    /\ [][(BillingFailed(1) /\ pc[1] # "done") =>
              StepsLeft(pc'[1]) < StepsLeft(pc[1])]_vars

C13_Witness ==
    /\ BillingFailed(1)
    /\ frame[1].function = "get_cost_forecast"
    /\ Succeeded(1)
    /\ frame[1].mcp_result # <<>>

----------------------------------------------------------------------------
(* Claims about the gateway *)

\* A call of one of the nine operations, directly or through
\* call_mcp_function
GatewayCall == response.via \in FunctionMap \cup { "call_mcp_function" }

\* A gateway call that reached the body of the named operation
OperationCall(names) ==
    /\ GatewayCall
    /\ request.function \in names
    /\ Binds(request.function, request.arguments)

\* C14: every call of one of the nine operations, and every call of
\* call_mcp_function (unknown names and keyword arguments that do not fit the
\* target included), ends by returning a text and never by raising,
\* whatever the billing source does and whatever the arguments are.
C14_GatewayNeverRaises ==
    GatewayCall =>
        /\ ~response.raised
        /\ response.message = ""
        /\ response.text # <<>>

C14_Witness ==
    /\ response.via = "call_mcp_function"
    /\ request.function \in FunctionMap
    /\ ~Binds(request.function, request.arguments)
    /\ billing_source[1][1] = "raises"

\* C15: when the billing source raises on the first request of an operation,
\* the text the operation returns contains the message of that exception;
\* for get_cost_drivers too.
C15_ErrorCarriesRootCause ==
    ( /\ OperationCall(FunctionMap \ { "get_today_date" })
      /\ response.periods # <<>>
      /\ billing_source[1][1] = "raises" ) =>
        \E i \in 1..Len(response.text) :
            /\ response.text[i][1] = "error"
            /\ response.text[i][3] = billing_source[1][2]

\* The days of the years around the reference dates, numbered from the day
\* before 1 January of the year two years before the first, and their texts
CalendarBase == DaysBeforeYear(FirstYear - 2)

CalendarDays == DaysBeforeYear(FirstYear + NumYears + 1) - CalendarBase

TextOfDay ==
    SelectSeq([ i \in 1..CalendarDays |-> Strftime(FromOrdinal(CalendarBase + i)) ],
              LAMBDA text : text # "")

\* The number of the day written as text
DayNumber(text) == CalendarBase + (CHOOSE i \in 1..CalendarDays : TextOfDay[i] = text)

CurrentMonthCall ==
    \/ response.via = "get_current_month_dates"
    \/ OperationCall({ "get_current_month_cost" })

\* C16: the current-month range of reference date d starts on the first day
\* of d's month and ends on the first day of the next month, which in
\* December is 1 January of the next year; so start <= d < end.
C16_CurrentMonthRange ==
    CurrentMonthCall =>
        /\ Len(response.periods) = 1
        /\ LET p == response.periods[1] IN
           /\ p.Start = MonthStartText(today.year, today.month, 0)
           /\ p.End = MonthStartText(today.year, today.month, 1)
           /\ (today.month = 12 => p.End = ToString(today.year + 1) \o "-01-01")
           /\ DayNumber(p.Start) <= ToOrdinal(today)
           /\ ToOrdinal(today) < DayNumber(p.End)

C16_Witness ==
    /\ OperationCall({ "get_current_month_cost" })
    /\ today.month = 12
    /\ today.day = 31
    /\ response.periods # <<>>

MonthsBackCall ==
    \/ response.via = "get_last_n_months_dates"
    \/ OperationCall({ "get_service_costs", "get_regional_costs" })

\* The month count of the call: the argument, or the parameter's default
MonthsBack ==
    IF request.arguments.months_back # <<>> THEN request.arguments.months_back[1]
    ELSE IF request.function = "get_service_costs" THEN 3 ELSE 1

\* C17: for every reference date d and every n >= 0 for which a months-back
\* range is produced, its end is the first day of d's month, the start of
\* the current-month range of d.
C17_MonthsBackEnd ==
    (MonthsBackCall /\ response.periods # <<>>) =>
        /\ MonthsBack >= 0
        /\ response.periods[1].End = MonthStartText(today.year, today.month, 0)
        /\ response.periods[1].End = get_current_month_dates(today).periods[1].Start

C17_Witness ==
    /\ OperationCall({ "get_service_costs" })
    /\ response.periods # <<>>
    /\ MonthsBack = 0
    /\ today.day = 31

\* C18: for every reference date d and every n >= 1, the start of the
\* months-back range is the first day of the month n calendar months before
\* d's month.
C18_MonthsBackStart ==
    (MonthsBackCall /\ response.periods # <<>> /\ MonthsBack >= 1) =>
        response.periods[1].Start = MonthStartText(today.year, today.month, -MonthsBack)

\* C19: the 'last month' range of get_today_date is the calendar month
\* before the reference month, first day to first day, and equals the
\* baseline range the router computes for the same date.
C19_LastMonthRange ==
    OperationCall({ "get_today_date" }) =>
        \E i \in 1..Len(response.text) :
            /\ response.text[i][1] = "last_month"
            /\ response.text[i][2] = MonthStartText(today.year, today.month, -1)
            /\ response.text[i][3] = MonthStartText(today.year, today.month, 0)
            /\ << response.text[i][2] >> = ComparisonArguments(today).baseline_start
            /\ << response.text[i][3] >> = ComparisonArguments(today).baseline_end

\* C20: every range that a gateway operation sends to the billing source
\* for an intent the router produced starts before it ends.
C20_StartBeforeEnd ==
    (rpc = "returned" /\ response.via = "call_mcp_function") =>
        \A i \in 1..Len(response.periods) :
            DayNumber(response.periods[i].Start) < DayNumber(response.periods[i].End)

----------------------------------------------------------------------------
(* Claims about the breakdowns *)

\* An operation has returned a text
Rendered == GatewayCall /\ ~response.raised

\* The blocks of the returned text of one kind, in order
BlocksOf(kind) == SelectSeq(response.text, LAMBDA b : b[1] = kind)

PeriodsBefore(k) ==
    Cardinality({ j \in 1..k : response.text[j][1] = "period" })

\* The item lines shown for time bucket i, in order
ItemsShown(i) ==
    LET at == { k \in DOMAIN response.text :
                  response.text[k][1] = "item" /\ PeriodsBefore(k) = i }
        n == Cardinality(at)
        first == IF at = {} THEN 0 ELSE CHOOSE k \in at : \A j \in at : k <= j
    IN [ j \in 1..n |-> response.text[first + j - 1] ]

\* shown is a ranked selection from groups: every line is a group of the
\* bucket, no group twice, amounts never rise along the lines, and no group
\* left out has a larger amount than a line
TopRanked(shown, groups) ==
    /\ \A j \in DOMAIN shown : \E g \in DOMAIN groups :
          shown[j] = << "item", groups[g].name, groups[g].amount >>
    /\ \A j, k \in DOMAIN shown : j < k =>
          /\ shown[j][2] # shown[k][2]
          /\ shown[j][3] >= shown[k][3]
    /\ \A g \in DOMAIN groups :
          (\A j \in DOMAIN shown : shown[j][2] # groups[g].name) =>
              \A j \in DOMAIN shown : groups[g].amount <= shown[j][3]

\* The amount of the group called name, 0 if there is none
AmountIn(groups, name) ==
    IF \E g \in DOMAIN groups : groups[g].name = name
    THEN groups[CHOOSE g \in DOMAIN groups : groups[g].name = name].amount
    ELSE 0

FirstBucket(r) == IF r[2] = <<>> THEN <<>> ELSE r[2][1]

\* The keys of the two responses of a comparison and the change of each
ComparedKeys ==
    { FirstBucket(billing_source[1])[g].name : g \in DOMAIN FirstBucket(billing_source[1]) }
    \cup { FirstBucket(billing_source[2])[g].name : g \in DOMAIN FirstBucket(billing_source[2]) }

ChangeOf(name) ==
    AmountIn(FirstBucket(billing_source[2]), name)
    - AmountIn(FirstBucket(billing_source[1]), name)

\* The rows are a ranked selection from the changes of the compared keys
RowsTopRanked(rows) ==
    /\ \A j \in DOMAIN rows :
          /\ rows[j][2] \in ComparedKeys
          /\ rows[j][5] = ChangeOf(rows[j][2])
    /\ \A j, k \in DOMAIN rows : j < k =>
          /\ rows[j][2] # rows[k][2]
          /\ Abs(rows[j][5]) >= Abs(rows[k][5])
    /\ \A name \in ComparedKeys :
          (\A j \in DOMAIN rows : rows[j][2] # name) =>
              \A j \in DOMAIN rows : Abs(ChangeOf(name)) <= Abs(rows[j][5])

\* C21: for every billing response the rendered breakdown is cut to the
\* top K: get_service_costs shows at most 10 lines per time bucket,
\* get_cost_comparisons and get_cost_drivers at most 10 rows,
\* get_cost_and_usage at most 15 lines per bucket and get_dimension_values
\* at most 20 values; the items shown are the highest-ranked ones of the
\* source, in rank order.
C21_TopKPrefix ==
    Rendered =>
        /\ (request.function = "get_service_costs" /\ billing_source[1][1] = "groups") =>
              \A i \in DOMAIN billing_source[1][2] :
                 /\ Len(ItemsShown(i)) <= 10
                 /\ TopRanked(ItemsShown(i), billing_source[1][2][i])
        /\ (request.function = "get_cost_and_usage" /\ billing_source[1][1] = "groups") =>
              \A i \in DOMAIN billing_source[1][2] :
                 /\ Len(ItemsShown(i)) <= 15
                 /\ TopRanked(ItemsShown(i), billing_source[1][2][i])
        /\ (/\ request.function \in { "get_cost_comparisons", "get_cost_drivers" }
            /\ billing_source[1][1] = "groups"
            /\ billing_source[2][1] = "groups") =>
              /\ Len(BlocksOf("row")) <= 10
              /\ RowsTopRanked(BlocksOf("row"))
        /\ (request.function = "get_dimension_values" /\ billing_source[1][1] = "values") =>
              /\ Len(BlocksOf("value")) <= 20
              /\ Len(BlocksOf("value")) <= Len(billing_source[1][2])
              /\ \A j \in DOMAIN BlocksOf("value") :
                    BlocksOf("value")[j] = << "value", j, billing_source[1][2][j] >>

\* get_service_costs has shown 10 lines of a bucket that holds more groups
\* with a positive amount
C21_Witness ==
    /\ Rendered
    /\ request.function = "get_service_costs"
    /\ billing_source[1][1] = "groups"
    /\ Len(ItemsShown(1)) = 10
    /\ Len(SelectSeq(billing_source[1][2][1], LAMBDA g : g.amount > 0)) > 10

\* Does the source hold more than K items that the breakdown would show
SourceExceeds ==
    CASE request.function = "get_service_costs" ->
           \E i \in DOMAIN billing_source[1][2] :
              Len(SelectSeq(billing_source[1][2][i], LAMBDA g : g.amount > 0)) > 10
      [] request.function = "get_cost_and_usage" ->
           \E i \in DOMAIN billing_source[1][2] :
              Len(SelectSeq(billing_source[1][2][i], LAMBDA g : g.amount > 0)) > 15
      [] request.function \in { "get_cost_comparisons", "get_cost_drivers" } ->
           Cardinality({ name \in ComparedKeys : Abs(ChangeOf(name)) > 1 }) > 10
      [] request.function = "get_dimension_values" ->
           Len(billing_source[1][2]) > 20
      [] OTHER -> FALSE

\* C22: a breakdown that leaves items out because the source holds more
\* than K of them (10 for services and comparisons, 15 for details, 20 for
\* dimension values) ends with a truncation trailer, and there is no
\* trailer when nothing was left out.
C22_TrailerIffTruncated ==
    (Rendered /\ billing_source[1][1] \in { "groups", "values" }) =>
        (SourceExceeds <=> BlocksOf("more") # <<>>)

----------------------------------------------------------------------------
(* Claims about two queries in flight *)

\* The number of the query a turn belongs to
QueryOf(turn) == turn.content[2]

\* C23: with two queries in flight on the one assistant instance, each
\* query's user turn is immediately followed in conversation_history by the
\* same query's assistant turn: no turn of another query stands between the
\* two turns of a query.
C23_TurnsNotInterleaved ==
    \A i, k \in DOMAIN conversation_history :
        (/\ i < k
         /\ conversation_history[i].role = "user"
         /\ conversation_history[k].role = "assistant"
         /\ QueryOf(conversation_history[i]) = QueryOf(conversation_history[k]))
        => k = i + 1

\* The turns conversation_history holds
Kept == { conversation_history[i] : i \in DOMAIN conversation_history }

\* C29: when add_to_history has run concurrently from two callers and both
\* calls have finished, no appended turn is lost except by oldest-first
\* eviction: conversation_history holds min(n, 10) of the n appended turns,
\* and every turn it lacks was appended before every turn it holds.
C29_OnlyOldestEvicted ==
    (\A c \in Callers : pc[c] = "done") =>
        /\ Kept \subseteq { appended[i] : i \in DOMAIN appended }
        /\ Len(conversation_history) =
              (IF Len(appended) < 10 THEN Len(appended) ELSE 10)
        /\ \A i, j \in DOMAIN appended :
              (appended[i] \notin Kept /\ appended[j] \in Kept) => i < j

----------------------------------------------------------------------------
(* Claims about the calls of one generate_response *)

\* The summarization call of caller c's current call has failed
ModelFailed(c) == frame[c].exception \in SummarizationFailures

\* C24: within one generate_response call the gateway operation is invoked
\* at most once and the summarization service at most once; after either has
\* failed it is not invoked again in that call; and the call returns to its
\* caller exactly once, a failed summarization as the error text.
C24_NoRetries ==
    /\ [](\A c \in Callers :
            /\ frame[c].gateway_calls <= 1
            /\ frame[c].model_calls <= 1
            /\ frame[c].returns <= 1
            /\ (pc[c] = "done" => frame[c].returns = 1)
            /\ ((pc[c] = "done" /\ ModelFailed(c)) =>
                   frame[c].returned = ErrorMessage(frame[c].exception)))
    /\ [][\A c \in Callers :
            frame'[c].id = frame[c].id =>
               /\ (BillingFailed(c) =>
                      frame'[c].gateway_calls = frame[c].gateway_calls)
               /\ (ModelFailed(c) =>
                      frame'[c].model_calls = frame[c].model_calls)]_vars

\* A call in which the billing source and then the summarization service
\* failed has returned
C24_Witness ==
    /\ pc[1] = "done"
    /\ BillingFailed(1)
    /\ ModelFailed(1)
    /\ frame[1].gateway_calls = 1
    /\ frame[1].model_calls = 1
    /\ frame[1].returns = 1

\* C25: the message list of every summarization request is a window of at
\* most 5 turns, all recorded in conversation_history before the current
\* query arrived, followed by exactly one user message that carries the
\* current query with the formatted retrieval result.
C25_WindowOfPriorTurns ==
    \A c \in Callers :
        pc[c] = "invoke" =>
            LET m == frame[c].messages
                n == Len(m)
            IN /\ n >= 1
               /\ n - 1 <= 5
               /\ m[n] = [ role |-> "user",
                           content |-> << "question and data", frame[c].id,
                                          frame[c].mcp_result >> ]
               /\ \A i \in 1..(n - 1) :
                     /\ m[i].content[1] \in { "query", "summary" }
                     /\ QueryOf(m[i]) < frame[c].id

----------------------------------------------------------------------------
(* Claims about the order of the comparison rows *)

\* C26: the comparison output is deterministic: an invocation with the same
\* baseline and comparison maps yields the same row sequence under every
\* iteration order of the key-union set, including the order of rows with
\* equal abs(delta) and the choice of such rows by the top-10 cut.
C26_RowsIndependentOfSetOrder ==
    "get_cost_comparisons" \in called =>
        \A seed \in 0..(NumSeeds - 1) :
            /\ SortedChanges(baseline_data, comparison_data, seed) = changes
            /\ get_cost_comparisons(EngineArguments, baseline_data, comparison_data,
                                    billing_error, seed).result = comparison_result

----------------------------------------------------------------------------
(* Claims about the last rule of the router *)

\* Every marker word that a condition of rules 1-7 tests
MarkersOfRules1to7 ==
    { "hyeonjae", "ibeon dal", "seobiseu", "bigyo", "byeonhwa", "wonin", "wae",
      "bunseok", "rijeon", "yecheuk", "jeonmang", "sangse", "jase" }

\* C27 as stated: get_today_date is selected if and only if the query
\* contains the date marker and none of the markers of rules 1-7; a query
\* with the current-period marker "hyeonjae" is always routed to
\* get_current_month_cost.
C27_TodayDateIffNoMarker ==
    rpc = "returned" =>
        /\ intent.function = "get_today_date" <=>
              ("naljja" \in query.words /\ query.words \cap MarkersOfRules1to7 = {})
        /\ "hyeonjae" \in query.words => intent.function = "get_current_month_cost"

\* C27, amended: get_today_date is selected if and only if the query
\* contains the date marker and satisfies none of rules 1-7; a query with
\* the current-period marker "hyeonjae" is always routed to
\* get_current_month_cost, so the "hyeonjae" alternative of rule 8 never
\* decides.
C27_TodayDateIffNoRule ==
    rpc = "returned" =>
        /\ intent.function = "get_today_date" <=>
              ("naljja" \in query.words
               /\ \A i \in 1..7 : ~RuleSatisfied(i, query.words))
        /\ "hyeonjae" \in query.words => intent.function = "get_current_month_cost"

\* The date marker next to a change marker that satisfies no rule by itself
C27_Witness ==
    /\ rpc = "returned"
    /\ intent.function = "get_today_date"
    /\ { "naljja", "byeonhwa" } \subseteq query.words

----------------------------------------------------------------------------
(* Claims about the bounds of a supplied date range *)

\* The text the caller supplied for a date parameter, "" if it was omitted
SuppliedDate(o) == IF o = <<>> THEN "" ELSE o[1]

\* C28: a start_date or end_date that the caller supplied is the bound sent
\* to the billing source, whatever the other bound is; a default replaces
\* only a bound that was omitted.  This holds for get_cost_and_usage and
\* for get_dimension_values.
C28_SuppliedBoundsAreSent ==
    (/\ OperationCall({ "get_cost_and_usage", "get_dimension_values" })
     /\ response.periods # <<>>) =>
        /\ SuppliedDate(request.arguments.start_date) # "" =>
              response.periods[1].Start = SuppliedDate(request.arguments.start_date)
        /\ SuppliedDate(request.arguments.end_date) # "" =>
              response.periods[1].End = SuppliedDate(request.arguments.end_date)

----------------------------------------------------------------------------
(* Claims about the presentation shell *)

\* The step that empties a message list which held messages: the clear
ClearStep == session_messages # <<>> /\ session_messages' = <<>>

\* C30: the shell's 'clear chat history' action empties only the shell's
\* own message list and leaves the assistant's conversation_history as it
\* is, so that the window of the next summarization request is still the
\* most recent 5 recorded turns, those recorded before the clear included.
C30_ClearLeavesHistory ==
    /\ [][ClearStep => /\ conversation_history' = conversation_history
                       /\ appended' = appended
                       /\ pc' = pc
                       /\ frame' = frame]_vars
    /\ [](pc[1] = "invoke" =>
            SubSeq(frame[1].messages, 1, Len(frame[1].messages) - 1) =
               MostRecent(appended, 5))

\* After a clear the session shows only the new prompt, and the request for
\* it holds a turn of an earlier prompt of the same session
C30_Witness ==
    /\ pc[1] = "invoke"
    /\ Len(session_messages) = 1
    /\ QueryOf(session_messages[1]) = frame[1].id
    /\ \E i \in 1..(Len(frame[1].messages) - 1) :
          /\ QueryOf(frame[1].messages[i]) > MaxQueries - MaxPrompts
          /\ QueryOf(frame[1].messages[i]) < frame[1].id

====
